---- MODULE Spec2Model ----
(***************************************************************************)
(* Model of the MovieScene segment compiler                                *)
(* (Runtime/MovieScene/Private/Compilation/MovieSceneSegmentCompiler.cpp): *)
(* FMovieSceneSegmentCompiler::Compile with CloseCompletedSegments,        *)
(* FMovieSceneSegmentCompilerRules::ProcessSegments / InsertSegment, and   *)
(* FMovieSceneTrackCompiler (FRows and Compile).                           *)
(*                                                                         *)
(* Times are floats in the source; the model uses integers.  Array indices *)
(* keep the source's 0-based values; a TLA+ sequence is read at index + 1. *)
(***************************************************************************)
EXTENDS Integers, Sequences, FiniteSets, TLC

VARIABLES
    pc,         \* position of the caller: "input", "compiled" (segment
                \* compiler), "reuse", "recompiled" (a further call on the
                \* same instance); "sections", "rows", "done" (track compiler)
    Data,       \* the TArrayView<FMovieSceneSectionData> handed to Compile
    Rules,      \* the FMovieSceneSegmentCompilerRules* handed to Compile
    Compiler,   \* the fields of the FMovieSceneSegmentCompiler instance
    Segments,   \* the TArray<FMovieSceneSegment> Compile returned
    Calls,      \* the policy callbacks made by the last call, and the
                \* ensure of InsertSegment where it fired
    Sections,   \* the TArray<UMovieSceneSection*> handed to FRows
    CompileRules, \* the rules pointer handed to FRows (the rows' rules)
    Rows,       \* FMovieSceneTrackCompiler::FRows::Rows
    Track,      \* the locals of FMovieSceneTrackCompiler::Compile at return
    Result,     \* the Segments of the FMovieSceneTrackEvaluationField returned
    EnsureFailed \* the ensure() checks that fired in the last track-level call

segmentVars == <<Data, Compiler, Segments>>

trackVars == <<Sections, CompileRules, Rows, Track, Result, EnsureFailed>>

vars == <<pc, Rules, Calls, segmentVars, trackVars>>

(***************************************************************************)
(* Bounds of the model.                                                    *)
(***************************************************************************)
MaxSections == 2
MaxTime == 2

Times == 0 .. MaxTime

(***************************************************************************)
(* TRangeBound<float>: Open, or Inclusive / Exclusive at a value.          *)
(* An open bound carries the value 0, so that record equality is the       *)
(* bound's operator== (same type, and same value unless open).             *)
(***************************************************************************)
OpenBound == [Type |-> "Open", Value |-> 0]

Inclusive(v) == [Type |-> "Inclusive", Value |-> v]

Exclusive(v) == [Type |-> "Exclusive", Value |-> v]

IsOpen(b) == b.Type = "Open"

\* Mutant: a closed bound becomes exclusive whatever it was.
FlipInclusion_ToExclusive(b) ==
    IF b.Type = "Open" THEN b ELSE [Type |-> "Exclusive", Value |-> b.Value]

FlipInclusion(b) ==
    IF b.Type = "Exclusive" THEN Inclusive(b.Value)
    ELSE IF b.Type = "Inclusive" THEN Exclusive(b.Value)
    ELSE b

\* The smaller of two lower bounds: open is smallest; at equal values the
\* inclusive bound reaches further left.
MinLower(a, b) ==
    IF IsOpen(a) THEN a
    ELSE IF IsOpen(b) THEN b
    ELSE IF a.Value < b.Value THEN a
    ELSE IF b.Value < a.Value THEN b
    ELSE IF a.Type = "Inclusive" THEN a
    ELSE b

\* The smaller of two upper bounds: open is largest; at equal values the
\* exclusive bound ends first.
MinUpper(a, b) ==
    IF IsOpen(a) THEN b
    ELSE IF IsOpen(b) THEN a
    ELSE IF a.Value < b.Value THEN a
    ELSE IF b.Value < a.Value THEN b
    ELSE IF a.Type = "Exclusive" THEN a
    ELSE b

MaxLower(a, b) ==
    IF IsOpen(a) THEN b
    ELSE IF IsOpen(b) THEN a
    ELSE IF a.Value > b.Value THEN a
    ELSE IF b.Value > a.Value THEN b
    ELSE IF a.Type = "Exclusive" THEN a
    ELSE b

MaxUpper(a, b) ==
    IF IsOpen(a) THEN a
    ELSE IF IsOpen(b) THEN b
    ELSE IF a.Value > b.Value THEN a
    ELSE IF b.Value > a.Value THEN b
    ELSE IF a.Type = "Inclusive" THEN a
    ELSE b

(***************************************************************************)
(* TRange<float>: a lower and an upper bound.                              *)
(***************************************************************************)
MakeRange(lower, upper) == [Lower |-> lower, Upper |-> upper]

RangeAll == MakeRange(OpenBound, OpenBound)

\* [5,5) is empty, [5,5] is not; a range with an open end is never empty.
IsEmpty(r) ==
    /\ ~IsOpen(r.Lower)
    /\ ~IsOpen(r.Upper)
    /\ \/ r.Lower.Value > r.Upper.Value
       \/ /\ r.Lower.Value = r.Upper.Value
          /\ (r.Lower.Type = "Exclusive" \/ r.Upper.Type = "Exclusive")

RangeEmpty == MakeRange(Exclusive(0), Exclusive(0))

\* upper followed by lower with no gap and no overlap
BoundsAdjoin(upper, lower) ==
    /\ ~IsOpen(upper)
    /\ ~IsOpen(lower)
    /\ upper.Value = lower.Value
    /\ upper.Type # lower.Type

Adjoins(r, o) ==
    /\ ~IsEmpty(r)
    /\ ~IsEmpty(o)
    /\ (BoundsAdjoin(r.Upper, o.Lower) \/ BoundsAdjoin(o.Upper, r.Lower))

Contains(r, o) ==
    /\ MinLower(r.Lower, o.Lower) = r.Lower
    /\ MaxUpper(r.Upper, o.Upper) = r.Upper

Hull(x, y) ==
    IF IsEmpty(x) THEN y
    ELSE IF IsEmpty(y) THEN x
    ELSE MakeRange(MinLower(x.Lower, y.Lower), MaxUpper(x.Upper, y.Upper))

Intersection(x, y) ==
    IF IsEmpty(x) \/ IsEmpty(y) THEN RangeEmpty
    ELSE MakeRange(MaxLower(x.Lower, y.Lower), MinUpper(x.Upper, y.Upper))

(***************************************************************************)
(* FSectionEvaluationData, FMovieSceneSectionData, FMovieSceneSegment.     *)
(***************************************************************************)
EvalDataOf(implIndex, flags) == [ImplIndex |-> implIndex, Flags |-> flags]

FMovieSceneSectionData(InBounds, InEvalData, InPriority) ==
    [Bounds |-> InBounds, EvalData |-> InEvalData, Priority |-> InPriority]

\* Mutant: a segment is built without the Impls handed in.
FMovieSceneSegment_NoImpls(InRange, InImpls) ==
    [Range |-> InRange, Impls |-> <<>>]

FMovieSceneSegment(InRange, InImpls) == [Range |-> InRange, Impls |-> InImpls]

\* FBound of the compiler: a bound and the section it belongs to
FBound(InEvalData, InBound) == [EvalData |-> InEvalData, Bound |-> InBound]

(***************************************************************************)
(* The value of an intermediate result is named by drawing it from a       *)
(* singleton set, Only({F(x) : x \in {e}}), where it is used more than once *)
(* or handed on to a loop: e is then computed once.                        *)
(***************************************************************************)
Only(S) == CHOOSE x \in S : TRUE

(***************************************************************************)
(* TArray helpers, 0-based as in the source.                               *)
(***************************************************************************)
INDEX_NONE == -1

\* TArray::IndexOfByKey: the first index holding key, or INDEX_NONE
IndexOfByKey(arr, key) ==
    IF \E i \in 1 .. Len(arr) : arr[i] = key
    THEN (CHOOSE i \in 1 .. Len(arr) :
              arr[i] = key /\ \A j \in 1 .. (i - 1) : arr[j] # key) - 1
    ELSE INDEX_NONE

\* TArray::RemoveAtSwap(Index, 1): the last element takes the removed place
RemoveAtSwap(arr, Index) ==
    LET n == Len(arr) IN
    [i \in 1 .. (n - 1) |-> IF i = Index + 1 THEN arr[n] ELSE arr[i]]

\* TArray::RemoveAt(Num - 1, 1): drops the last element
RemoveLast(arr) == SubSeq(arr, 1, Len(arr) - 1)

\* TArray::Insert(Item, Index)
InsertAt(arr, Item, Index) ==
    SubSeq(arr, 1, Index) \o <<Item>> \o SubSeq(arr, Index + 1, Len(arr))

SetLastRange(segs, range) ==
    [segs EXCEPT ![Len(segs)].Range = range]

(***************************************************************************)
(* FMovieSceneSegmentCompiler: the sweep.                                  *)
(* The compiler's fields are one record: OverlappingSections,              *)
(* OverlappingRefCounts, LowerBounds, UpperBounds, LowerReadIndex,         *)
(* UpperReadIndex, CompiledSegments.  EnsureFailed collects the ensure()   *)
(* checks that fired during the call.                                      *)
(***************************************************************************)
FreshCompiler ==
    [OverlappingSections |-> <<>>, OverlappingRefCounts |-> <<>>,
     LowerBounds |-> <<>>, UpperBounds |-> <<>>,
     LowerReadIndex |-> 0, UpperReadIndex |-> 0,
     CompiledSegments |-> <<>>, EnsureFailed |-> {}]

\* Lines 93-102: the bounds of the sections with a non-empty range, in the
\* order of Data.
\* Mutant: sections with an empty range are entered like the others.
RECURSIVE PopulateBounds_KeepEmpty(_, _, _)
PopulateBounds_KeepEmpty(InData, Index, upper) ==
    IF Index >= Len(InData) THEN <<>>
    ELSE LET Section == InData[Index + 1] IN
         <<FBound(Section.EvalData,
                  IF upper THEN Section.Bounds.Upper
                  ELSE Section.Bounds.Lower)>>
         \o PopulateBounds_KeepEmpty(InData, Index + 1, upper)

RECURSIVE PopulateBounds(_, _, _)
PopulateBounds(InData, Index, upper) ==
    IF Index >= Len(InData) THEN <<>>
    ELSE LET Section == InData[Index + 1] IN
         (IF ~IsEmpty(Section.Bounds)
          THEN <<FBound(Section.EvalData,
                        IF upper THEN Section.Bounds.Upper
                        ELSE Section.Bounds.Lower)>>
          ELSE <<>>)
         \o PopulateBounds(InData, Index + 1, upper)

\* Mutant: the lower bounds are sorted from the latest to the earliest.
LowerPredicate_Reversed(A, B) == MaxLower(A.Bound, B.Bound) = A.Bound

\* The predicates handed to Sort (lines 104-116).
LowerPredicate(A, B) == MinLower(A.Bound, B.Bound) = A.Bound

\* Mutant: the upper bounds are left in any order.
UpperPredicate_Unsorted(A, B) == TRUE

UpperPredicate(A, B) == MinUpper(A.Bound, B.Bound) = A.Bound

Precedes(A, B, upper) ==
    IF upper THEN UpperPredicate(A, B) ELSE LowerPredicate(A, B)

\* TArray::Sort is not stable: every arrangement in which no element is
\* followed by one that the predicate puts strictly before it is a possible
\* outcome.  SortOutcomes is the set of them.
RECURSIVE SortOutcomesFrom(_, _, _)
SortOutcomesFrom(arr, left, upper) ==
    IF left = {} THEN {<<>>}
    ELSE UNION {
           { <<arr[i]>> \o rest :
               rest \in UNION {SortOutcomesFrom(arr, others, upper) :
                                  others \in {left \ {i}}} } :
           i \in { k \in left :
                     \A j \in left : Precedes(arr[k], arr[j], upper) } }

SortOutcomes(arr, upper) ==
    UNION {SortOutcomesFrom(a, 1 .. Len(a), upper) : a \in {arr}}

\* Mutant: an upper bound is always handled before the next lower bound.
HasOpeningRange_Never(c) == FALSE

\* Mutant: any lower bound still to be read counts as an opening range.
HasOpeningRange_AnyLower(c) == c.LowerReadIndex < Len(c.LowerBounds)

\* Line 173: a non-empty range lies between the next lower bound and the
\* next upper bound, so the next event is an opening one.
HasOpeningRange(c) ==
    /\ c.LowerReadIndex < Len(c.LowerBounds)
    /\ ~IsEmpty(MakeRange(c.LowerBounds[c.LowerReadIndex + 1].Bound,
                          c.UpperBounds[c.UpperReadIndex + 1].Bound))

\* Mutant: the last segment is closed on the opening bound itself.
ClosingBoundBefore_NoFlip(OpeningBound) == OpeningBound

\* Line 178: the bound that closes the last segment just before the next
\* opening bound.
ClosingBoundBefore(OpeningBound) == FlipInclusion(OpeningBound)

\* Mutant: the following segment starts on the closing bound itself.
LowerBoundAfter_NoFlip(ClosingBound) == ClosingBound

\* Line 221: the lower bound of the segment that follows a closing bound.
LowerBoundAfter(ClosingBound) == FlipInclusion(ClosingBound)

\* Mutant: a section is removed from the active set at its first close.
LastReference_Always(RefCount) == TRUE

\* Mutant: a section is never removed from the active set.
LastReference_Never(RefCount) == FALSE

\* Line 208: the decremented reference count has reached zero.
LastReference(RefCount) == RefCount - 1 = 0

\* Mutant: a new segment is created after every close, also when no section
\* is active any more.
SegmentForRemaining_Always(c, ClosingBound) ==
    [c EXCEPT
       !.CompiledSegments =
           Append(@, FMovieSceneSegment(
                         MakeRange(FlipInclusion(ClosingBound), OpenBound),
                         c.OverlappingSections))]

\* Mutant: no segment is created for the sections still active.
SegmentForRemaining_None(c, ClosingBound) == c

\* Lines 217-224: a new segment for the sections still active after a close.
SegmentForRemaining(c, ClosingBound) ==
    IF Len(c.OverlappingSections) # 0
    THEN [c EXCEPT
            !.CompiledSegments =
                Append(@, FMovieSceneSegment(
                              MakeRange(LowerBoundAfter(ClosingBound),
                                        OpenBound),
                              c.OverlappingSections))]
    ELSE c

\* Lines 203-215: remove all sections that finish on ClosingBound.
RECURSIVE RemoveFinished(_, _)
RemoveFinished(c, ClosingBound) ==
    IF /\ c.UpperReadIndex < Len(c.UpperBounds)
       /\ c.UpperBounds[c.UpperReadIndex + 1].Bound = ClosingBound
    THEN LET OverlappingIndex ==
                 IndexOfByKey(c.OverlappingSections,
                              c.UpperBounds[c.UpperReadIndex + 1].EvalData)
             c1 == IF OverlappingIndex # INDEX_NONE
                   THEN IF LastReference(
                                c.OverlappingRefCounts[OverlappingIndex + 1])
                        THEN [c EXCEPT
                                !.OverlappingSections =
                                    RemoveAtSwap(@, OverlappingIndex),
                                !.OverlappingRefCounts =
                                    RemoveAtSwap(@, OverlappingIndex)]
                        ELSE [c EXCEPT
                                !.OverlappingRefCounts[OverlappingIndex + 1] =
                                    @ - 1]
                   ELSE [c EXCEPT !.EnsureFailed = @ \cup {"OverlappingIndex"}]
         IN Only({RemoveFinished(n, ClosingBound) :
                    n \in {[c1 EXCEPT !.UpperReadIndex = @ + 1]}})
    ELSE c

\* Lines 168-225: the loop of CloseCompletedSegments.
RECURSIVE CloseLoop(_)
CloseLoop(c) ==
    IF ~(c.UpperReadIndex < Len(c.UpperBounds)) THEN c
    ELSE
    LET LastSegment == c.CompiledSegments[Len(c.CompiledSegments)]
        bHasOpeningRange == HasOpeningRange(c)
    IN
    IF bHasOpeningRange
    THEN IF Len(c.OverlappingSections) # 0
         THEN LET ClosingBound ==
                      ClosingBoundBefore(
                          c.LowerBounds[c.LowerReadIndex + 1].Bound)
                  NewRange == MakeRange(LastSegment.Range.Lower, ClosingBound)
              IN IF ~IsEmpty(NewRange)
                 THEN [c EXCEPT !.CompiledSegments = SetLastRange(@, NewRange)]
                 ELSE [c EXCEPT !.CompiledSegments = RemoveLast(@)]
         ELSE c
    ELSE
    LET ClosingBound == c.UpperBounds[c.UpperReadIndex + 1].Bound
        Closed == MakeRange(LastSegment.Range.Lower, ClosingBound)
        c1 == [c EXCEPT
                 !.CompiledSegments = SetLastRange(@, Closed),
                 !.EnsureFailed =
                     IF IsEmpty(Closed) THEN @ \cup {"LastSegmentEmpty"} ELSE @]
    IN Only({CloseLoop(c3) :
               c3 \in {SegmentForRemaining(c2, ClosingBound) :
                          c2 \in {RemoveFinished(n, ClosingBound) :
                                     n \in {c1}}}})

\* FMovieSceneSegmentCompiler::CloseCompletedSegments
CloseCompletedSegments(c) ==
    IF Len(c.CompiledSegments) = 0 THEN c ELSE CloseLoop(c)

\* Mutant: every reference adds an entry of its own.
AddReference_AlwaysAdd(c, EvalData) ==
    [c EXCEPT !.OverlappingSections = Append(@, EvalData),
              !.OverlappingRefCounts = Append(@, 1)]

\* Lines 130-139: a section not yet overlapping is added with one reference,
\* one that is overlapping gets one reference more.
AddReference(c, EvalData) ==
    LET OverlapIndex == IndexOfByKey(c.OverlappingSections, EvalData)
    IN IF OverlapIndex = INDEX_NONE
       THEN [c EXCEPT
               !.OverlappingSections = Append(@, EvalData),
               !.OverlappingRefCounts = Append(@, 1)]
       ELSE [c EXCEPT !.OverlappingRefCounts[OverlapIndex + 1] = @ + 1]

\* Lines 127-141: reference-count every section starting at OpeningBound.
RECURSIVE OpenSections(_, _)
OpenSections(c, OpeningBound) ==
    LET EvalData == c.LowerBounds[c.LowerReadIndex + 1].EvalData
        c1 == AddReference(c, EvalData)
    IN Only({IF /\ c2.LowerReadIndex < Len(c2.LowerBounds)
                /\ c2.LowerBounds[c2.LowerReadIndex + 1].Bound = OpeningBound
             THEN OpenSections(c2, OpeningBound)
             ELSE c2 :
               c2 \in {[c1 EXCEPT !.LowerReadIndex = @ + 1]}})

\* Lines 118-147: the main loop of Compile.
RECURSIVE SweepLoop(_)
SweepLoop(c) ==
    IF c.LowerReadIndex < Len(c.LowerBounds)
    THEN Only({
           LET OpeningBound == c1.LowerBounds[c1.LowerReadIndex + 1].Bound
           IN Only({SweepLoop(c3) :
                      c3 \in {[c2 EXCEPT
                                 !.CompiledSegments =
                                     Append(@, FMovieSceneSegment(
                                                   MakeRange(OpeningBound,
                                                             OpenBound),
                                                   c2.OverlappingSections))] :
                                 c2 \in {OpenSections(c1, OpeningBound)}}}) :
           c1 \in {CloseCompletedSegments(c)}})
    ELSE c

\* Mutant: the two read indices are left as the last call left them.
ResetFields_KeepReadIndices(c) ==
    [c EXCEPT
       !.OverlappingSections = <<>>, !.OverlappingRefCounts = <<>>,
       !.LowerBounds = <<>>, !.UpperBounds = <<>>,
       !.CompiledSegments = <<>>, !.EnsureFailed = {}]

\* Lines 83-90: the working fields of the instance are reset.  (EnsureFailed
\* is the record of this call only.)
ResetFields(c) ==
    [c EXCEPT
       !.OverlappingSections = <<>>, !.OverlappingRefCounts = <<>>,
       !.LowerBounds = <<>>, !.UpperBounds = <<>>,
       !.CompiledSegments = <<>>,
       !.LowerReadIndex = 0, !.UpperReadIndex = 0, !.EnsureFailed = {}]

\* Lines 83-151 of Compile on the instance for one outcome of the two sorts:
\* the fields are reset, the sorted bounds are in place, the sweep runs, and
\* the final ensure is evaluated.
Sweep(Instance, SortedLower, SortedUpper) ==
    LET c0 == [ResetFields(Instance) EXCEPT
                 !.LowerBounds = SortedLower, !.UpperBounds = SortedUpper]
    IN Only({[c1 EXCEPT
                !.EnsureFailed =
                    IF Len(c1.OverlappingSections) # 0
                    THEN @ \cup {"OverlappingSections"} ELSE @] :
               c1 \in {CloseCompletedSegments(swept) :
                          swept \in {SweepLoop(c0)}}})

(***************************************************************************)
(* FMovieSceneSegmentCompilerRules.  A policy is a record: IsNull (no      *)
(* rules object), Blend, Insert and PostProcess name the behaviour of the  *)
(* three virtual hooks, bAllowEmptySegments is the flag AllowEmptySegments *)
(* returns.                                                                *)
(***************************************************************************)
MakeRules(blend, insert, post, allowEmpty) ==
    [IsNull |-> FALSE, Blend |-> blend, Insert |-> insert,
     PostProcess |-> post, bAllowEmptySegments |-> allowEmpty]

NullRules ==
    [IsNull |-> TRUE, Blend |-> "Keep", Insert |-> "None",
     PostProcess |-> "None", bAllowEmptySegments |-> FALSE]

\* Mutant: every policy allows empty segments.
AllowEmptySegments_Always(InRules) == TRUE

AllowEmptySegments(InRules) == InRules.bAllowEmptySegments

\* Priority of the section an Impl refers to in the source data
PriorityOf(SourceData, EvalData) == SourceData[EvalData.ImplIndex + 1].Priority

\* The first Impl of the highest priority
HighestPriorityImpl(Impls, SourceData) ==
    LET best == CHOOSE i \in 1 .. Len(Impls) :
                    /\ \A j \in 1 .. Len(Impls) :
                           PriorityOf(SourceData, Impls[j])
                               <= PriorityOf(SourceData, Impls[i])
                    /\ \A j \in 1 .. (i - 1) :
                           PriorityOf(SourceData, Impls[j])
                               < PriorityOf(SourceData, Impls[i])
    IN Impls[best]

\* BlendSegment policies: "Keep" leaves the segment as compiled (the hook
\* does nothing), "HighestPriority" keeps only the Impl of highest priority,
\* "Solo" keeps an Impl only where it is the only one.
BlendSegment(InRules, Segment, SourceData) ==
    IF InRules.Blend = "HighestPriority" /\ Len(Segment.Impls) > 0
    THEN [Segment EXCEPT !.Impls = <<HighestPriorityImpl(@, SourceData)>>]
    ELSE IF InRules.Blend = "Solo" /\ Len(Segment.Impls) > 1
    THEN [Segment EXCEPT !.Impls = <<>>]
    ELSE Segment

\* InsertEmptySpace policies: "None" returns nothing, "Fill" returns a
\* segment without Impls over the whole gap.  Three policies return a range
\* that overflows the gap: "All" the unbounded range, "Tail" the range from
\* the start of the gap on, "Neighbour" the range of the previous segment
\* (of the next one where there is none).  "Part" returns only the start of
\* the gap: one time unit from its lower bound on, or, for a gap unbounded
\* below, everything up to one unit before its end.  The TOptional is a
\* sequence of length 0 or 1.
InsertEmptySpace(InRules, Range, PreviousSegment, NextSegment) ==
    IF InRules.Insert = "Fill"
    THEN <<FMovieSceneSegment(Range, <<>>)>>
    ELSE IF InRules.Insert = "All"
    THEN <<FMovieSceneSegment(RangeAll, <<>>)>>
    ELSE IF InRules.Insert = "Tail"
    THEN <<FMovieSceneSegment(MakeRange(Range.Lower, OpenBound), <<>>)>>
    ELSE IF InRules.Insert = "Neighbour"
    THEN <<FMovieSceneSegment((PreviousSegment \o NextSegment)[1].Range,
                              <<>>)>>
    ELSE IF InRules.Insert = "Part"
    THEN <<FMovieSceneSegment(
               IF ~IsOpen(Range.Lower)
               THEN MakeRange(Range.Lower, Exclusive(Range.Lower.Value + 1))
               ELSE IF ~IsOpen(Range.Upper)
               THEN MakeRange(OpenBound, Exclusive(Range.Upper.Value - 1))
               ELSE Range,
               <<>>)>>
    ELSE <<>>

\* PostProcessSegments policies: "None" does nothing, "DropEmpty" removes the
\* segments without Impls unless AllowEmptySegments.
PostProcessSegments(InRules, InSegments, SourceData) ==
    IF InRules.PostProcess = "DropEmpty" /\ ~AllowEmptySegments(InRules)
    THEN SelectSeq(InSegments, LAMBDA seg : Len(seg.Impls) # 0)
    ELSE InSegments

CallRecord(op, range, hasPrevious, hasNext) ==
    [Op |-> op, Range |-> range, Previous |-> hasPrevious, Next |-> hasNext]

\* Mutant: the returned segment is inserted as it is.
CorrectedSegment_AsReturned(NewSeg, EmptyRange) == NewSeg

\* Lines 70-73: a returned range that overflows the empty space is replaced
\* by its intersection with the empty space.
CorrectedSegment(NewSeg, EmptyRange) ==
    IF ~Contains(EmptyRange, NewSeg.Range)
    THEN [NewSeg EXCEPT !.Range = Intersection(NewSeg.Range, EmptyRange)]
    ELSE NewSeg

\* FMovieSceneSegmentCompilerRules::InsertSegment.  ps holds the segment
\* array and the log of callbacks; the result adds Inserted, the value
\* returned.
InsertSegment(InRules, ps, Index, SourceData) ==
    LET Segs == ps.Segments
        HasPrevious == Index - 1 >= 0 /\ Index - 1 < Len(Segs)
        HasNext == Index >= 0 /\ Index < Len(Segs)
        PreviousSegment == IF HasPrevious THEN <<Segs[Index]>> ELSE <<>>
        NextSegment == IF HasNext THEN <<Segs[Index + 1]>> ELSE <<>>
        EmptyRange ==
            MakeRange(
                IF HasPrevious THEN FlipInclusion(Segs[Index].Range.Upper)
                ELSE OpenBound,
                IF HasNext THEN FlipInclusion(Segs[Index + 1].Range.Lower)
                ELSE OpenBound)
        NewSeg == InsertEmptySpace(InRules, EmptyRange,
                                   PreviousSegment, NextSegment)
        asked == Append(ps.Calls,
                        CallRecord("InsertEmptySpace", EmptyRange,
                                   HasPrevious, HasNext))
    IN
    IF IsEmpty(EmptyRange)
    THEN [Segments |-> Segs, Calls |-> ps.Calls, Inserted |-> FALSE]
    ELSE IF Len(NewSeg) = 0
    THEN [Segments |-> Segs, Calls |-> asked, Inserted |-> FALSE]
    ELSE LET Clamped == CorrectedSegment(NewSeg[1], EmptyRange)
             Blended == BlendSegment(InRules, Clamped, SourceData)
             ensured ==
                 IF ~Contains(EmptyRange, NewSeg[1].Range)
                 THEN Append(asked,
                             CallRecord("ensureMsgf", NewSeg[1].Range,
                                        HasPrevious, HasNext))
                 ELSE asked
         IN [Segments |-> InsertAt(Segs, Blended, Index),
             Calls |-> Append(ensured,
                              CallRecord("BlendSegment", Clamped.Range,
                                         HasPrevious, HasNext)),
             Inserted |-> TRUE]

\* Mutant: the places between segments are not visited.
InsertBetween_Skip(InRules, ps, Index, SourceData) == ps

\* Lines 33-40: the loop over the places between segments.
RECURSIVE InsertBetween(_, _, _, _)
InsertBetween(InRules, ps, Index, SourceData) ==
    IF Index < Len(ps.Segments)
    THEN Only({InsertBetween(InRules, r,
                             IF r.Inserted THEN Index + 2 ELSE Index + 1,
                             SourceData) :
                 r \in {InsertSegment(InRules, ps, Index, SourceData)}})
    ELSE ps

\* Mutant: the compiled segments are not blended.
BlendAll_Skip(InRules, InSegments, SourceData) ==
    [Segments |-> InSegments, Calls |-> <<>>, Inserted |-> FALSE]

\* Mutant: only the first compiled segment is blended.
BlendAll_FirstOnly(InRules, InSegments, SourceData) ==
    [Segments |->
         [i \in 1 .. Len(InSegments) |->
              IF i = 1
              THEN BlendSegment(InRules, InSegments[i], SourceData)
              ELSE InSegments[i]],
     Calls |-> <<CallRecord("BlendSegment", InSegments[1].Range,
                            FALSE, FALSE)>>,
     Inserted |-> FALSE]

\* Lines 18-21: BlendSegment on every compiled segment, in order.
BlendAll(InRules, InSegments, SourceData) ==
    [Segments |->
         [i \in 1 .. Len(InSegments) |->
              BlendSegment(InRules, InSegments[i], SourceData)],
     Calls |->
         [i \in 1 .. Len(InSegments) |->
              CallRecord("BlendSegment", InSegments[i].Range, FALSE, FALSE)],
     Inserted |-> FALSE]

\* Line 26: the first segment does not reach back without bound.
BoundedBelow(InSegments) == ~IsOpen(InSegments[1].Range.Lower)

\* Mutant: the space after the last segment is never looked at.
BoundedAbove_Never(InSegments) == FALSE

\* Line 42: the last segment does not go on without bound.
BoundedAbove(InSegments) ==
    ~IsOpen(InSegments[Len(InSegments)].Range.Upper)

\* FMovieSceneSegmentCompilerRules::ProcessSegments
ProcessSegments(InRules, InSegments, SourceData) ==
    IF Len(InSegments) = 0
    THEN [Segments |-> InSegments, Calls |-> <<>>]
    ELSE Only({
           [Segments |-> PostProcessSegments(InRules, p3.Segments, SourceData),
            Calls |-> p3.Calls] :
           p3 \in {IF BoundedAbove(p2.Segments)
                   THEN InsertSegment(InRules, p2, Len(p2.Segments),
                                      SourceData)
                   ELSE p2 :
                   p2 \in {InsertBetween(InRules, p1, 1, SourceData) :
                           p1 \in {IF BoundedBelow(p0.Segments)
                                   THEN InsertSegment(InRules, p0, 0,
                                                      SourceData)
                                   ELSE p0 :
                                   p0 \in {BlendAll(InRules, InSegments,
                                                    SourceData)}}}}})

\* FMovieSceneSegmentCompiler::Compile on the instance: every outcome the
\* call can have, one per outcome of the two sorts.  Returned is what the
\* caller receives; Compiler is what the instance holds afterwards
\* (CompiledSegments was moved out).
CompileOutcomes(Instance, InData, InRules) ==
    UNION {
      { Only({[Returned |-> p.Segments, Calls |-> p.Calls,
               Compiler |-> [c EXCEPT !.CompiledSegments = <<>>]] :
                p \in {IF ~InRules.IsNull
                       THEN ProcessSegments(InRules, c.CompiledSegments, data)
                       ELSE [Segments |-> c.CompiledSegments,
                             Calls |-> <<>>]}}) :
          c \in {Sweep(Instance, lo, up) :
                   lo \in SortOutcomes(PopulateBounds(data, 0, FALSE), FALSE),
                   up \in SortOutcomes(PopulateBounds(data, 0, TRUE), TRUE)} } :
      data \in {InData} }

(***************************************************************************)
(* FMovieSceneTrackCompiler.  A UMovieSceneSection is a record of what     *)
(* FRows reads from it: IsValid (the pointer is not null), bIsActive,      *)
(* RowIndex, bIsInfinite, Range, OverlapPriority, PreRollTime and          *)
(* PostRollTime.                                                           *)
(***************************************************************************)
\* Mutant: the row entry records the index of the entry within its row.
FMovieSceneSectionRowData_RowLocal(InIndex, InBounds, InEvalData, InPriority) ==
    [ActualSectionIndex |-> InEvalData.ImplIndex, Bounds |-> InBounds,
     EvalData |-> InEvalData, Priority |-> InPriority]

FMovieSceneSectionRowData(InIndex, InBounds, InEvalData, InPriority) ==
    [ActualSectionIndex |-> InIndex, Bounds |-> InBounds,
     EvalData |-> InEvalData, Priority |-> InPriority]

\* A default-constructed FRow
DefaultRow == [Sections |-> <<>>, CompileRules |-> NullRules]

\* Rows.AddDefaulted(Count)
AddDefaulted(InRows, Count) ==
    InRows \o [i \in 1 .. Count |-> DefaultRow]

\* A float handed where a TRangeBound is expected converts to the inclusive
\* bound at that value.
BoundFromValue(v) == Inclusive(v)

\* Line 256: the range of the pre-roll entry
PreRollRange(Range, PreRollTime) ==
    MakeRange(BoundFromValue(Range.Lower.Value - PreRollTime),
              FlipInclusion(BoundFromValue(Range.Lower.Value)))

\* Line 264: the range of the post-roll entry
PostRollRange(Range, PostRollTime) ==
    MakeRange(FlipInclusion(BoundFromValue(Range.Upper.Value)),
              BoundFromValue(Range.Upper.Value + PostRollTime))

\* Rows[RowIndex].Sections.Add(Item)
AddToRow(InRows, RowIndex, Item) ==
    [InRows EXCEPT ![RowIndex + 1].Sections = Append(@, Item)]

\* Lines 239-268: one active section is entered into its row.
AddSectionToRows(InRows, Section, Index) ==
    LET RowIndex == Section.RowIndex
        Range == IF Section.bIsInfinite THEN RangeAll ELSE Section.Range
    IN
    Only({
      LET EvalData == EvalDataOf(Len(grown[RowIndex + 1].Sections), "None")
      IN Only({
           IF ~IsOpen(Range.Upper) /\ Section.PostRollTime > 0
           THEN AddToRow(pre, RowIndex,
                         FMovieSceneSectionRowData(
                             Index,
                             PostRollRange(Range, Section.PostRollTime),
                             [EvalData EXCEPT !.Flags = "PostRoll"],
                             Section.OverlapPriority))
           ELSE pre :
           pre \in
             {IF ~IsOpen(Range.Lower) /\ Section.PreRollTime > 0
              THEN AddToRow(main, RowIndex,
                            FMovieSceneSectionRowData(
                                Index,
                                PreRollRange(Range, Section.PreRollTime),
                                [EvalData EXCEPT !.Flags = "PreRoll"],
                                Section.OverlapPriority))
              ELSE main :
              main \in
                {AddToRow(grown, RowIndex,
                          FMovieSceneSectionRowData(
                              Index, Range, EvalData,
                              Section.OverlapPriority))}}}) :
      grown \in {IF RowIndex >= 0 /\ RowIndex < Len(InRows)
                 THEN InRows
                 ELSE AddDefaulted(InRows, RowIndex - Len(InRows) + 1)}})

\* Lines 231-269: the loop over the sections; null and inactive sections are
\* skipped, a null one after its ensure fired.
RECURSIVE PopulateRows(_, _, _)
PopulateRows(r, InSections, Index) ==
    IF Index >= Len(InSections)
    THEN r
    ELSE LET Section == InSections[Index + 1] IN
         IF ~Section.IsValid
         THEN PopulateRows([r EXCEPT !.EnsureFailed = @ \cup {"Section"}],
                           InSections, Index + 1)
         ELSE IF ~Section.bIsActive
         THEN PopulateRows(r, InSections, Index + 1)
         ELSE Only({PopulateRows(n, InSections, Index + 1) :
                      n \in {[r EXCEPT
                                !.Rows =
                                    AddSectionToRows(@, Section, Index)]}})

\* Mutant: the rows without entries are not removed.
FRows_KeepEmptyRows(InSections, InCompileRules) ==
    Only({[Rows |-> [i \in 1 .. Len(x.Rows) |->
                        [x.Rows[i] EXCEPT !.CompileRules = InCompileRules]],
           EnsureFailed |-> x.EnsureFailed] :
            x \in {PopulateRows([Rows |-> <<>>, EnsureFailed |-> {}],
                                InSections, 0)}})

\* FMovieSceneTrackCompiler::FRows::FRows
FRows(InSections, InCompileRules) ==
    Only({[Rows |-> [i \in 1 .. Len(kept) |->
                        [kept[i] EXCEPT !.CompileRules = InCompileRules]],
           EnsureFailed |-> r.EnsureFailed] :
            <<r, kept>> \in
                {<<x, SelectSeq(x.Rows, LAMBDA Row : Len(Row.Sections) # 0)>> :
                   x \in {PopulateRows([Rows |-> <<>>, EnsureFailed |-> {}],
                                       InSections, 0)}}})

\* TArray<FMovieSceneSectionData>(Row.Sections)
RowSectionData(Row) ==
    [i \in 1 .. Len(Row.Sections) |->
         FMovieSceneSectionData(Row.Sections[i].Bounds,
                                Row.Sections[i].EvalData,
                                Row.Sections[i].Priority)]

\* The locals of FMovieSceneTrackCompiler::Compile before the first row
EmptyTrack ==
    [TrackCompileData |-> <<>>, SourceTrackDataToActualIndex |-> <<>>,
     TrackSegments |-> <<>>]

\* Mutant: the rows are counted without those that have no sections.
RowPriority_Dense(InRows, RowIndex) ==
    Cardinality({i \in (RowIndex + 1) .. Len(InRows) :
                    Len(InRows[i].Sections) # 0})

\* Line 313
RowPriority(InRows, RowIndex) == Len(InRows) - RowIndex

\* Lines 316-325: the Impls of one row segment are entered into the lookup
\* table and the track compile data.
RECURSIVE FlattenImpls(_, _, _, _, _)
FlattenImpls(t, Row, Segment, i, Priority) ==
    IF i > Len(Segment.Impls)
    THEN t
    ELSE LET EvalData == Segment.Impls[i]
             Remapped ==
                 [EvalData EXCEPT !.ImplIndex = Len(t.TrackCompileData)]
         IN Only({FlattenImpls(n, Row, Segment, i + 1, Priority) :
                    n \in {[t EXCEPT
                              !.SourceTrackDataToActualIndex =
                                  Append(@,
                                         Row.Sections[EvalData.ImplIndex + 1]
                                             .ActualSectionIndex),
                              !.TrackCompileData =
                                  Append(@, FMovieSceneSectionData(
                                                Segment.Range, Remapped,
                                                Priority))]}})

\* Lines 314-326: the loop over the segments of one row
RECURSIVE FlattenSegments(_, _, _, _, _)
FlattenSegments(t, Row, RowSegments, k, Priority) ==
    IF k > Len(RowSegments)
    THEN t
    ELSE Only({FlattenSegments(n, Row, RowSegments, k + 1, Priority) :
                 n \in {FlattenImpls(t, Row, RowSegments[k], 1, Priority)}})

\* Lines 298-327: every outcome of compiling the rows from RowIndex on.  An
\* outcome holds the locals, the callbacks made and the ensures that fired.
RECURSIVE CompileRows(_, _, _)
CompileRows(InRows, RowIndex, acc) ==
    IF RowIndex >= Len(InRows)
    THEN {acc}
    ELSE LET Row == InRows[RowIndex + 1] IN
         IF Len(Row.Sections) = 0
         THEN CompileRows(InRows, RowIndex + 1, acc)
         ELSE UNION {
                CompileRows(InRows, RowIndex + 1, n) :
                n \in {[Track |->
                           FlattenSegments(acc.Track, Row, o.Returned, 1,
                                           RowPriority(InRows, RowIndex)),
                        Calls |-> acc.Calls \o o.Calls,
                        EnsureFailed |->
                            acc.EnsureFailed \cup o.Compiler.EnsureFailed] :
                        o \in CompileOutcomes(FreshCompiler,
                                              RowSectionData(Row),
                                              Row.CompileRules)} }

\* Mutant: the index is left as it is in the track compile data.
ActualSectionIndex_NotRemapped(LookUp, ImplIndex) == ImplIndex

\* Line 346: SourceTrackDataToActualIndex[SectionEvalData.ImplIndex]
ActualSectionIndex(LookUp, ImplIndex) == LookUp[ImplIndex + 1]

\* Lines 343-347: the Impls of a track segment are remapped to the actual
\* section indices.
RemapSegment(Segment, LookUp) ==
    [Range |-> Segment.Range,
     Impls |-> [i \in 1 .. Len(Segment.Impls) |->
                   [Segment.Impls[i] EXCEPT
                      !.ImplIndex = ActualSectionIndex(LookUp, @)]]]

\* Mutant: equal Impls are enough, whether the ranges adjoin or not.
SameAsPrevious_AnyRange(Previous, Segment) ==
    /\ Len(Previous.Impls) = Len(Segment.Impls)
    /\ \A i \in 1 .. Len(Segment.Impls) : Previous.Impls[i] = Segment.Impls[i]

\* Mutant: a segment is never taken to be the same as the previous one.
SameAsPrevious_Never(Previous, Segment) == FALSE

\* Line 352: the segment adjoins the previous one and its Impls array equals
\* the previous one's (TArray operator==: same length, equal element by
\* element).
SameAsPrevious(Previous, Segment) ==
    /\ Adjoins(Previous.Range, Segment.Range)
    /\ Len(Previous.Impls) = Len(Segment.Impls)
    /\ \A i \in 1 .. Len(Segment.Impls) : Previous.Impls[i] = Segment.Impls[i]

\* Lines 341-361: the loop that builds Result.Segments
RECURSIVE MergeSegments(_, _, _, _, _)
MergeSegments(ResultSegments, TrackSegments, k, LookUp, InRules) ==
    IF k > Len(TrackSegments)
    THEN ResultSegments
    ELSE Only({
           MergeSegments(next, TrackSegments, k + 1, LookUp, InRules) :
           next \in
             {LET n == Len(ResultSegments)
              IN IF \/ Len(Segment.Impls) # 0
                    \/ (~InRules.IsNull /\ AllowEmptySegments(InRules))
                 THEN IF n # 0 /\ SameAsPrevious(ResultSegments[n], Segment)
                      THEN [ResultSegments EXCEPT
                              ![n].Range = Hull(@, Segment.Range)]
                      ELSE Append(ResultSegments, Segment)
                 ELSE ResultSegments :
              Segment \in {RemapSegment(TrackSegments[k], LookUp)}}})

\* FMovieSceneTrackCompiler::Compile: every outcome the call can have.
\* Track.TrackSegments holds the track segments as compiled and processed,
\* before the last loop remaps them.
TrackCompileOutcomes(InRows, InRules) ==
    UNION {
      { Only({[Result |->
                   MergeSegments(<<>>, p.Segments, 1,
                                 r.Track.SourceTrackDataToActualIndex,
                                 InRules),
               Track |-> [r.Track EXCEPT !.TrackSegments = p.Segments],
               Calls |-> r.Calls \o p.Calls,
               EnsureFailed |->
                   r.EnsureFailed \cup o.Compiler.EnsureFailed] :
                p \in {IF ~InRules.IsNull
                       THEN ProcessSegments(InRules, o.Returned,
                                            r.Track.TrackCompileData)
                       ELSE [Segments |-> o.Returned, Calls |-> <<>>]}}) :
          o \in CompileOutcomes(FreshCompiler, r.Track.TrackCompileData,
                                NullRules) } :
      r \in CompileRows(InRows, 0,
                        [Track |-> EmptyTrack, Calls |-> <<>>,
                         EnsureFailed |-> {}]) }

(***************************************************************************)
(* The callers' inputs.                                                    *)
(***************************************************************************)
\* The range [a, b)
HalfOpen(a, b) == MakeRange(Inclusive(a), Exclusive(b))

BoundsOver(T) ==
    {OpenBound} \cup {Inclusive(v) : v \in T} \cup {Exclusive(v) : v \in T}

\* The ranges a caller passes: every non-empty range, and the empty ranges
\* [v, v).  (A range whose lower value exceeds its upper value is a caller
\* bug; Compile drops it like any other empty range.)
RangesOver(T) ==
    {r \in {MakeRange(lo, up) : lo \in BoundsOver(T), up \in BoundsOver(T)} :
        \/ ~IsEmpty(r)
        \/ /\ r.Lower.Value = r.Upper.Value
           /\ r.Lower.Type = "Inclusive"}

\* A total order on ranges, used only to pick one arrangement of each input.
BoundKey(b) ==
    IF IsOpen(b) THEN 0
    ELSE IF b.Type = "Inclusive" THEN 2 * b.Value + 1
    ELSE 2 * b.Value + 2

RangeKey(r) == BoundKey(r.Lower) * 1000 + BoundKey(r.Upper)

\* A new section refers to itself (its own index in Data) or to a section
\* already in Data (a second reference to the same section).
ImplIndicesFor(InData) ==
    {Len(InData)} \cup {InData[i].EvalData.ImplIndex : i \in 1 .. Len(InData)}

(***************************************************************************)
(* Actions.                                                                *)
(***************************************************************************)
\* The track compiler has not been used.
TrackIdle ==
    /\ Sections = <<>>
    /\ CompileRules = NullRules
    /\ Rows = <<>>
    /\ Track = EmptyTrack
    /\ Result = <<>>
    /\ EnsureFailed = {}

\* The caller adds a section to the data it will compile.  Compile with no
\* rules reads Data only through the two sorted lists of bounds, so one
\* arrangement of each input stands for all: sections are entered from the
\* latest lower bound to the earliest, the reverse of what the sort produces.
AddSection(T) ==
    /\ pc = "input"
    /\ Len(Data) < MaxSections
    /\ \E range \in RangesOver(T), implIndex \in ImplIndicesFor(Data) :
           /\ Len(Data) > 0 =>
                  RangeKey(range) <= RangeKey(Data[Len(Data)].Bounds)
           /\ Data' = Append(Data,
                             FMovieSceneSectionData(
                                 range, EvalDataOf(implIndex, "None"),
                                 Len(Data) + 1))
    /\ UNCHANGED <<pc, Rules, Compiler, Segments, Calls, trackVars>>

\* Compiler.Compile(Data, Rules), the first call on the instance or a later
\* one
Compile ==
    /\ pc \in {"input", "reuse"}
    /\ \E o \in CompileOutcomes(Compiler, Data, Rules) :
           /\ Segments' = o.Returned
           /\ Calls' = o.Calls
           /\ Compiler' = o.Compiler
    /\ pc' = IF pc = "input" THEN "compiled" ELSE "recompiled"
    /\ UNCHANGED <<Data, Rules, trackVars>>

Init ==
    /\ pc = "input"
    /\ Data = <<>>
    /\ Rules = NullRules
    /\ Compiler = FreshCompiler
    /\ Segments = <<>>
    /\ Calls = <<>>
    /\ TrackIdle

Next == AddSection(Times) \/ Compile

Spec == Init /\ [][Next]_vars

(***************************************************************************)
(* Compile with a rules policy (specification RulesSpec).  The sections    *)
(* are half-open or unbounded ranges over the times 0, 5, 10 and 15, in    *)
(* any order; the priority of a section is its position in Data.           *)
(***************************************************************************)
ScenarioTimes == {0, 5, 10, 15}

ScenarioRanges ==
    {r \in {MakeRange(lo, up) :
              lo \in {OpenBound} \cup {Inclusive(v) : v \in ScenarioTimes},
              up \in {OpenBound} \cup {Exclusive(v) : v \in ScenarioTimes}} :
        ~IsEmpty(r) \/ r.Lower.Value = r.Upper.Value}

RulePolicies ==
    {NullRules}
    \cup {MakeRules(blend, insert, "None", FALSE) :
            blend \in {"Keep", "HighestPriority"}, insert \in {"None", "Fill"}}
    \cup {MakeRules(blend, insert, "DropEmpty", allowEmpty) :
            blend \in {"Keep", "HighestPriority"}, insert \in {"None", "Fill"},
            allowEmpty \in BOOLEAN}

\* The caller adds a section with its own EvaluationData.
AddScenarioSection ==
    /\ pc = "input"
    /\ Len(Data) < MaxSections
    /\ \E range \in ScenarioRanges :
           Data' = Append(Data,
                          FMovieSceneSectionData(
                              range, EvalDataOf(Len(Data), "None"),
                              Len(Data) + 1))
    /\ UNCHANGED <<pc, Rules, Compiler, Segments, Calls, trackVars>>

RulesInit ==
    /\ pc = "input"
    /\ Data = <<>>
    /\ Rules \in RulePolicies
    /\ Compiler = FreshCompiler
    /\ Segments = <<>>
    /\ Calls = <<>>
    /\ TrackIdle

RulesNext == AddScenarioSection \/ Compile

RulesSpec == RulesInit /\ [][RulesNext]_vars

(***************************************************************************)
(* Compile with a policy that fills gaps (specification GapSpec): the      *)
(* policy's InsertEmptySpace returns the gap, or a range that overflows it. *)
(***************************************************************************)
GapPolicies ==
    {MakeRules(blend, insert, "None", TRUE) :
       blend \in {"Keep", "HighestPriority"},
       insert \in {"Fill", "All", "Tail", "Neighbour", "Part"}}

GapInit ==
    /\ pc = "input"
    /\ Data = <<>>
    /\ Rules \in GapPolicies
    /\ Compiler = FreshCompiler
    /\ Segments = <<>>
    /\ Calls = <<>>
    /\ TrackIdle

GapSpec == GapInit /\ [][RulesNext]_vars

(***************************************************************************)
(* Several calls of Compile on one instance (specification ReuseSpec).     *)
(* After a call returns the caller may prepare another call on the same    *)
(* instance, with new data and new rules.                                   *)
(***************************************************************************)
\* [0,1), [1,2), [0,2] and the unbounded range
ReuseRanges ==
    {HalfOpen(0, 1), HalfOpen(1, 2), MakeRange(Inclusive(0), Inclusive(2)),
     RangeAll}

ReusePolicies == {NullRules, MakeRules("HighestPriority", "Fill", "None", TRUE)}

\* The caller adds a section to the data of the call it prepares.
AddReuseSection ==
    /\ pc \in {"input", "reuse"}
    /\ Len(Data) < MaxSections
    /\ \E range \in ReuseRanges :
           Data' = Append(Data,
                          FMovieSceneSectionData(
                              range, EvalDataOf(Len(Data), "None"),
                              Len(Data) + 1))
    /\ UNCHANGED <<pc, Rules, Compiler, Segments, Calls, trackVars>>

\* The caller has used the result and prepares another call on the instance.
NextCall ==
    /\ pc \in {"compiled", "recompiled"}
    /\ pc' = "reuse"
    /\ Data' = <<>>
    /\ Rules' \in ReusePolicies
    /\ Segments' = <<>>
    /\ Calls' = <<>>
    /\ UNCHANGED <<Compiler, trackVars>>

ReuseInit ==
    /\ pc = "input"
    /\ Data = <<>>
    /\ Rules \in ReusePolicies
    /\ Compiler = FreshCompiler
    /\ Segments = <<>>
    /\ Calls = <<>>
    /\ TrackIdle

ReuseNext == AddReuseSection \/ Compile \/ NextCall

ReuseSpec == ReuseInit /\ [][ReuseNext]_vars

(***************************************************************************)
(* Compile on lists with equal bounds (specification TieSpec).  The        *)
(* sections share lower and upper bounds, are entered in any order, and a  *)
(* section may be a further reference to one already entered.              *)
(***************************************************************************)
MaxTied == 3

\* [0,1], [0,2), [0,2], [1,2], (1,2] and (-inf,2]
TieRanges ==
    {MakeRange(Inclusive(0), Inclusive(1)), HalfOpen(0, 2),
     MakeRange(Inclusive(0), Inclusive(2)),
     MakeRange(Inclusive(1), Inclusive(2)),
     MakeRange(Exclusive(1), Inclusive(2)),
     MakeRange(OpenBound, Inclusive(2))}

AddTiedSection ==
    /\ pc = "input"
    /\ Len(Data) < MaxTied
    /\ \E range \in TieRanges, implIndex \in ImplIndicesFor(Data) :
           Data' = Append(Data,
                          FMovieSceneSectionData(
                              range, EvalDataOf(implIndex, "None"),
                              Len(Data) + 1))
    /\ UNCHANGED <<pc, Rules, Compiler, Segments, Calls, trackVars>>

TieNext == AddTiedSection \/ Compile

TieSpec == Init /\ [][TieNext]_vars

(***************************************************************************)
(* The track compiler (specification TrackSpec).  The caller collects the  *)
(* sections of a track, builds the rows and compiles them.  A section is   *)
(* null, inactive, or active in row 0 or 1 with one of a few shapes; its   *)
(* overlap priority is its position in the list.                           *)
(***************************************************************************)
MaxEntities == 3

RowIndices == {0, 1}

MovieSceneSection(InRowIndex, Shape, InPriority) ==
    [IsValid |-> TRUE, bIsActive |-> TRUE, RowIndex |-> InRowIndex,
     bIsInfinite |-> Shape.bIsInfinite, Range |-> Shape.Range,
     OverlapPriority |-> InPriority,
     PreRollTime |-> Shape.PreRollTime, PostRollTime |-> Shape.PostRollTime]

SectionShape(infinite, range, pre, post) ==
    [bIsInfinite |-> infinite, Range |-> range,
     PreRollTime |-> pre, PostRollTime |-> post]

\* [0,2); [1,2) with post-roll; (0,1] with pre-roll; the empty range [1,1)
\* with and without pre-roll; an infinite section.
SectionShapes ==
    <<SectionShape(FALSE, HalfOpen(0, 2), 0, 0),
      SectionShape(FALSE, HalfOpen(1, 2), 0, 1),
      SectionShape(FALSE, MakeRange(Exclusive(0), Inclusive(1)), 1, 0),
      SectionShape(FALSE, HalfOpen(1, 1), 1, 0),
      SectionShape(FALSE, HalfOpen(1, 1), 0, 0),
      SectionShape(TRUE, HalfOpen(0, 2), 1, 1)>>

NullSection ==
    [MovieSceneSection(0, SectionShapes[1], 0)
        EXCEPT !.IsValid = FALSE, !.bIsActive = FALSE]

InactiveSection ==
    [MovieSceneSection(0, SectionShapes[1], 0) EXCEPT !.bIsActive = FALSE]

\* The sections a track is built from, but for their priority.
TrackSections ==
    {NullSection, InactiveSection}
    \cup {MovieSceneSection(row, SectionShapes[k], 0) :
            row \in RowIndices, k \in 1 .. Len(SectionShapes)}

\* A total order on these sections, used only to pick one arrangement of each
\* track: null, inactive, then the sections of row 1, then those of row 0,
\* each row in the order of SectionShapes.
SectionKey(Section) ==
    IF ~Section.IsValid THEN 0
    ELSE IF ~Section.bIsActive THEN 1
    ELSE 10 * (2 - Section.RowIndex)
         + (CHOOSE k \in 1 .. Len(SectionShapes) :
                MovieSceneSection(Section.RowIndex, SectionShapes[k],
                                  Section.OverlapPriority) = Section)

HighestPriorityRules == MakeRules("HighestPriority", "None", "None", FALSE)

FillRules == MakeRules("Keep", "Fill", "None", TRUE)

\* As FillRules, but empty segments are not allowed
FillDropRules == MakeRules("Keep", "Fill", "None", FALSE)

\* A policy that evaluates nothing where sections overlap, fills every gap
\* and does not allow empty segments
SoloDropRules == MakeRules("Solo", "Fill", "None", FALSE)

\* The rules of the rows and of the track
TrackPolicies ==
    {<<NullRules, NullRules>>, <<HighestPriorityRules, NullRules>>,
     <<HighestPriorityRules, HighestPriorityRules>>,
     <<HighestPriorityRules, FillRules>>,
     <<HighestPriorityRules, FillDropRules>>,
     <<HighestPriorityRules, SoloDropRules>>}

\* The caller adds a section to the track.
AddTrackSection ==
    /\ pc = "sections"
    /\ Len(Sections) < MaxEntities
    /\ \E Section \in TrackSections :
           /\ Len(Sections) > 0 =>
                  SectionKey(Sections[Len(Sections)]) < SectionKey(Section)
           /\ Sections' =
                  Append(Sections,
                         [Section EXCEPT
                            !.OverlapPriority = Len(Sections) + 1])
    /\ UNCHANGED <<pc, Rules, Calls, segmentVars, CompileRules, Rows, Track,
                   Result, EnsureFailed>>

\* FMovieSceneTrackCompiler::FRows Rows(Sections, CompileRules)
BuildRows ==
    /\ pc = "sections"
    /\ LET r == FRows(Sections, CompileRules)
       IN /\ Rows' = r.Rows
          /\ EnsureFailed' = r.EnsureFailed
    /\ pc' = "rows"
    /\ UNCHANGED <<Rules, Calls, segmentVars, Sections, CompileRules, Track,
                   Result>>

\* FMovieSceneTrackCompiler::Compile(Rows, Rules)
CompileTrack ==
    /\ pc = "rows"
    /\ \E o \in TrackCompileOutcomes(Rows, Rules) :
           /\ Result' = o.Result
           /\ Track' = o.Track
           /\ Calls' = o.Calls
           /\ EnsureFailed' = o.EnsureFailed
    /\ pc' = "done"
    /\ UNCHANGED <<Rules, segmentVars, Sections, CompileRules, Rows>>

TrackInit ==
    /\ pc = "sections"
    /\ \E policy \in TrackPolicies :
           CompileRules = policy[1] /\ Rules = policy[2]
    /\ Calls = <<>>
    /\ Data = <<>>
    /\ Compiler = FreshCompiler
    /\ Segments = <<>>
    /\ Sections = <<>>
    /\ Rows = <<>>
    /\ Track = EmptyTrack
    /\ Result = <<>>
    /\ EnsureFailed = {}

TrackNext == AddTrackSection \/ BuildRows \/ CompileTrack

TrackSpec == TrackInit /\ [][TrackNext]_vars

(***************************************************************************)
(* A caller of either compiler (specification CallerSpec).                 *)
(***************************************************************************)
CallerInit == RulesInit \/ TrackInit

CallerNext == AddScenarioSection \/ Compile \/ AddTrackSection \/ BuildRows
                  \/ CompileTrack

CallerSpec == CallerInit /\ [][CallerNext]_vars

(***************************************************************************)
(* Compile over rows some of which have no sections (specification         *)
(* RowsSpec): the caller may hand Compile any array of rows, so after the  *)
(* rows were built it may add rows without sections anywhere in the array. *)
(***************************************************************************)
MaxRows == 3

\* The caller inserts a row without sections.
AddEmptyRow ==
    /\ pc = "rows"
    /\ Len(Rows) > 0
    /\ Len(Rows) < MaxRows
    /\ \E Index \in 0 .. Len(Rows) :
           Rows' = InsertAt(Rows,
                            [DefaultRow EXCEPT !.CompileRules = CompileRules],
                            Index)
    /\ UNCHANGED <<pc, Rules, Calls, segmentVars, Sections, CompileRules,
                   Track, Result, EnsureFailed>>

RowsInit ==
    /\ TrackInit
    /\ CompileRules = HighestPriorityRules
    /\ Rules = NullRules

RowsNext == AddTrackSection \/ BuildRows \/ AddEmptyRow \/ CompileTrack

RowsSpec == RowsInit /\ [][RowsNext]_vars

(***************************************************************************)
(* Vocabulary of the properties.                                           *)
(* A time point is written doubled (q stands for the time q / 2), so that  *)
(* the points between two neighbouring integer times can be named.         *)
(***************************************************************************)
ContainsPoint(r, q) ==
    /\ \/ IsOpen(r.Lower)
       \/ r.Lower.Type = "Inclusive" /\ 2 * r.Lower.Value <= q
       \/ r.Lower.Type = "Exclusive" /\ 2 * r.Lower.Value < q
    /\ \/ IsOpen(r.Upper)
       \/ r.Upper.Type = "Inclusive" /\ q <= 2 * r.Upper.Value
       \/ r.Upper.Type = "Exclusive" /\ q < 2 * r.Upper.Value

\* Every bound value of the ranges, and the points just before and after it:
\* two ranges built from these bounds share a point iff they share one of
\* these.
SamplePoints(ranges) ==
    {0} \cup UNION { {2 * b.Value - 1, 2 * b.Value, 2 * b.Value + 1} :
                     b \in {r.Lower : r \in ranges} \cup {r.Upper : r \in ranges} }

RangesOf(seq) == {seq[i].Range : i \in 1 .. Len(seq)}

BoundsOf(seq) == {seq[i].Bounds : i \in 1 .. Len(seq)}

Elements(seq) == {seq[i] : i \in 1 .. Len(seq)}

Points == SamplePoints(BoundsOf(Data) \cup RangesOf(Segments))

NonEmptySections(InData) ==
    {i \in 1 .. Len(InData) : ~IsEmpty(InData[i].Bounds)}

\* a is strictly before b in the order of lower bounds
LowerBefore(a, b) == a # b /\ MinLower(a, b) = a

NoOverlap(segs, points) ==
    \A i \in 1 .. Len(segs) : \A j \in (i + 1) .. Len(segs) :
                 \A q \in points :
                     ~(ContainsPoint(segs[i].Range, q)
                       /\ ContainsPoint(segs[j].Range, q))

IncreasingLower(segs) ==
    \A i \in 1 .. (Len(segs) - 1) :
        LowerBefore(segs[i].Range.Lower, segs[i + 1].Range.Lower)

\* No two consecutive segments adjoin and carry the same set of Impls.
Minimal(segs) ==
    \A k \in 1 .. (Len(segs) - 1) :
        ~(/\ Adjoins(segs[k].Range, segs[k + 1].Range)
          /\ Elements(segs[k].Impls) = Elements(segs[k + 1].Impls))

\* No EvaluationData occurs in two sections with a non-empty range.
NoRepeatedEvalData(InData) ==
    \A i, j \in NonEmptySections(InData) :
        InData[i].EvalData = InData[j].EvalData => i = j

(***************************************************************************)
(* Properties of Compile without rules (specification Spec).               *)
(***************************************************************************)

\* C1: any two distinct segments returned by Compile with no rules have
\* ranges that do not overlap: no time point lies inside both.
C1_NoOverlap ==
    (pc = "compiled" /\ Rules.IsNull) => NoOverlap(Segments, Points)

\* Two sections that overlap in part were compiled into three segments.
C1_Witness ==
    /\ pc = "compiled"
    /\ Rules.IsNull
    /\ Len(Segments) >= 3
    /\ \E i, j \in NonEmptySections(Data) :
           /\ i # j
           /\ ~Contains(Data[i].Bounds, Data[j].Bounds)
           /\ ~Contains(Data[j].Bounds, Data[i].Bounds)
           /\ \E q \in Points : /\ ContainsPoint(Data[i].Bounds, q)
                                /\ ContainsPoint(Data[j].Bounds, q)

\* C2: the segments returned by Compile with no rules are in strictly
\* increasing order of lower bound (open smallest; at equal values inclusive
\* before exclusive).
C2_IncreasingLower ==
    (pc = "compiled" /\ Rules.IsNull) => IncreasingLower(Segments)

\* Two consecutive segments start at the same value, the first inclusive and
\* the second exclusive.
C2_Witness ==
    /\ pc = "compiled"
    /\ Rules.IsNull
    /\ \E k \in 1 .. (Len(Segments) - 1) :
           /\ Segments[k].Range.Lower.Type = "Inclusive"
           /\ Segments[k + 1].Range.Lower.Type = "Exclusive"
           /\ Segments[k].Range.Lower.Value = Segments[k + 1].Range.Lower.Value

\* C3: coverage.  For every section with a non-empty range and every point p
\* of that range, the output of Compile with no rules has a segment whose
\* range contains p and whose Impls include the section's EvaluationData.
C3_Coverage ==
    (pc = "compiled" /\ Rules.IsNull) =>
        LET points == Points IN
        \A i \in NonEmptySections(Data) :
            \A q \in points :
                ContainsPoint(Data[i].Bounds, q) =>
                    \E k \in 1 .. Len(Segments) :
                        /\ ContainsPoint(Segments[k].Range, q)
                        /\ Data[i].EvalData \in Elements(Segments[k].Impls)

\* Bounds of two different sections coincide in value: one section ends
\* inclusively where the other starts inclusively, and a third bound is open.
C3_Witness ==
    /\ pc = "compiled"
    /\ Rules.IsNull
    /\ \E i, j \in NonEmptySections(Data) :
           /\ i # j
           /\ Data[i].EvalData # Data[j].EvalData
           /\ Data[i].Bounds.Upper.Type = "Inclusive"
           /\ Data[j].Bounds.Lower.Type = "Inclusive"
           /\ Data[i].Bounds.Upper.Value = Data[j].Bounds.Lower.Value
           /\ IsOpen(Data[j].Bounds.Upper)
           /\ Data[i].Bounds.Lower.Type = "Exclusive"

\* C4: exactness.  Every EvaluationData in a segment's Impls belongs to an
\* input section whose range contains the whole range of the segment (so no
\* segment lists a section that is inactive somewhere inside it), and no
\* segment covers a point that lies in no input section.
C4_Exactness ==
    (pc = "compiled" /\ Rules.IsNull) =>
        LET points == Points IN
        \A k \in 1 .. Len(Segments) :
            /\ \A e \in Elements(Segments[k].Impls) :
                   \E i \in NonEmptySections(Data) :
                       /\ Data[i].EvalData = e
                       /\ Contains(Data[i].Bounds, Segments[k].Range)
                       /\ \A q \in points :
                              ContainsPoint(Segments[k].Range, q) =>
                                  ContainsPoint(Data[i].Bounds, q)
            /\ \A q \in points :
                   ContainsPoint(Segments[k].Range, q) =>
                       \E i \in NonEmptySections(Data) :
                           ContainsPoint(Data[i].Bounds, q)

\* A section ends inside another one: the segment after its end lists only
\* the section that goes on.
C4_Witness ==
    /\ pc = "compiled"
    /\ Rules.IsNull
    /\ \E i, j \in NonEmptySections(Data) :
           /\ Data[i].EvalData # Data[j].EvalData
           /\ Contains(Data[i].Bounds, Data[j].Bounds)
           /\ \E k \in 1 .. Len(Segments) :
                  /\ k > 1
                  /\ Segments[k].Impls = <<Data[i].EvalData>>
                  /\ Data[j].EvalData \in Elements(Segments[k - 1].Impls)

\* C6 as claimed: for every input list, including lists in which the same
\* EvaluationData occurs in several sections, no two consecutive segments
\* returned by Compile with no rules adjoin and carry the same set of Impls.
C6_MinimalAlways ==
    (pc = "compiled" /\ Rules.IsNull) => Minimal(Segments)

\* C6 as amended: when no EvaluationData occurs in more than one section
\* with a non-empty range, no two consecutive segments returned by Compile
\* with no rules adjoin and carry the same set of Impls.
C6_MinimalWithoutRepeats ==
    (pc = "compiled" /\ Rules.IsNull /\ NoRepeatedEvalData(Data)) =>
        Minimal(Segments)

\* Two sections with different EvaluationData gave consecutive adjoining
\* segments.
C6_Witness ==
    /\ pc = "compiled"
    /\ Rules.IsNull
    /\ NoRepeatedEvalData(Data)
    /\ Cardinality(NonEmptySections(Data)) >= 2
    /\ \E k \in 1 .. (Len(Segments) - 1) :
           Adjoins(Segments[k].Range, Segments[k + 1].Range)

(***************************************************************************)
(* The scenario of two sections A = [0,10), priority 1, and B = [5,15),    *)
(* priority 2 (specification RulesSpec).                                   *)
(***************************************************************************)
ScenarioA == EvalDataOf(0, "None")

ScenarioB == EvalDataOf(1, "None")

ScenarioData ==
    <<FMovieSceneSectionData(HalfOpen(0, 10), ScenarioA, 1),
      FMovieSceneSectionData(HalfOpen(5, 15), ScenarioB, 2)>>

\* The segments have the given ranges, in order, and the given sets of Impls.
SegmentsAre(segs, ranges, implSets) ==
    /\ Len(segs) = Len(ranges)
    /\ \A k \in 1 .. Len(segs) :
           /\ segs[k].Range = ranges[k]
           /\ Elements(segs[k].Impls) = implSets[k]
           /\ Len(segs[k].Impls) = Cardinality(implSets[k])

\* C8: Compile on A = [0,10) and B = [5,15) with no rules returns exactly
\* [0,5) with Impls {A}, [5,10) with Impls {A,B}, [10,15) with Impls {B}.
C8_ScenarioNoRules ==
    (pc = "compiled" /\ Rules.IsNull /\ Data = ScenarioData) =>
        SegmentsAre(Segments,
                    <<HalfOpen(0, 5), HalfOpen(5, 10), HalfOpen(10, 15)>>,
                    <<{ScenarioA}, {ScenarioA, ScenarioB}, {ScenarioB}>>)

\* The scenario was compiled with no rules.
C8_Witness ==
    pc = "compiled" /\ Rules.IsNull /\ Data = ScenarioData /\ Len(Segments) > 0

\* C9 as claimed: with a policy whose BlendSegment keeps only the Impl of
\* highest priority, Compile on the scenario returns exactly [0,5) with {A}
\* and [5,15) with {B}: [5,10) and [10,15) are merged.
C9_ScenarioMerged ==
    (/\ pc = "compiled"
     /\ ~Rules.IsNull
     /\ Rules.Blend = "HighestPriority"
     /\ Rules.Insert = "None"
     /\ Data = ScenarioData) =>
        SegmentsAre(Segments,
                    <<HalfOpen(0, 5), HalfOpen(5, 15)>>,
                    <<{ScenarioA}, {ScenarioB}>>)

\* C9 as amended: with a policy whose BlendSegment keeps only the Impl of
\* highest priority and whose InsertEmptySpace returns nothing, Compile on
\* the scenario returns exactly [0,5) with {A}, [5,10) with {B} and [10,15)
\* with {B}: the two segments that resolve to {B} are not merged.
C9_ScenarioNotMerged ==
    (/\ pc = "compiled"
     /\ ~Rules.IsNull
     /\ Rules.Blend = "HighestPriority"
     /\ Rules.Insert = "None"
     /\ Data = ScenarioData) =>
        SegmentsAre(Segments,
                    <<HalfOpen(0, 5), HalfOpen(5, 10), HalfOpen(10, 15)>>,
                    <<{ScenarioA}, {ScenarioB}, {ScenarioB}>>)

\* The scenario was compiled and blended with highest priority wins.
C9_Witness ==
    /\ pc = "compiled"
    /\ ~Rules.IsNull
    /\ Rules.Blend = "HighestPriority"
    /\ Rules.Insert = "None"
    /\ Data = ScenarioData
    /\ Len(Segments) = 3
    /\ \E k \in 1 .. Len(Calls) : Calls[k].Op = "BlendSegment"

(***************************************************************************)
(* Properties of the track compiler (specification TrackSpec).             *)
(***************************************************************************)
\* The section is evaluated at the point q: q lies in its range (every
\* point, for an infinite section), or in its pre-roll range, the
\* PreRollTime before the value of a closed lower bound, that value left
\* out, or in its post-roll range, the PostRollTime after the value of a
\* closed upper bound, that value left out.
EvaluatedAt(Section, q) ==
    \/ Section.bIsInfinite
    \/ ContainsPoint(Section.Range, q)
    \/ /\ ~IsOpen(Section.Range.Lower)
       /\ Section.PreRollTime > 0
       /\ 2 * (Section.Range.Lower.Value - Section.PreRollTime) <= q
       /\ q < 2 * Section.Range.Lower.Value
    \/ /\ ~IsOpen(Section.Range.Upper)
       /\ Section.PostRollTime > 0
       /\ 2 * Section.Range.Upper.Value < q
       /\ q <= 2 * (Section.Range.Upper.Value + Section.PostRollTime)

\* The oracle: the indices in Sections of the active sections evaluated at q
ActiveAt(q) ==
    {i \in 0 .. (Len(Sections) - 1) :
        /\ Sections[i + 1].IsValid
        /\ Sections[i + 1].bIsActive
        /\ EvaluatedAt(Sections[i + 1], q)}

ImplIndices(Segment) ==
    {Segment.Impls[j].ImplIndex : j \in 1 .. Len(Segment.Impls)}

RowRanges ==
    UNION {BoundsOf(Rows[i].Sections) : i \in 1 .. Len(Rows)}

TrackPoints == SamplePoints(RowRanges \cup RangesOf(Result))

EqualInOrder(a, b) ==
    /\ Len(a.Impls) = Len(b.Impls)
    /\ \A i \in 1 .. Len(a.Impls) : a.Impls[i] = b.Impls[i]

\* The track segment as the last loop of Compile sees it after the remap
Remapped(Segment) ==
    [Range |-> Segment.Range,
     Impls |-> [i \in 1 .. Len(Segment.Impls) |->
                   [Segment.Impls[i] EXCEPT
                      !.ImplIndex =
                          Track.SourceTrackDataToActualIndex[@ + 1]]]]

\* C7 as claimed: whatever rules the rows and the track use, the final field
\* never holds two consecutive segments that adjoin and whose Impls are the
\* same set of entries, in any order: such segments are merged.
C7_MergedAnyOrder ==
    pc = "done" => Minimal(Result)

\* C7 as amended: whatever rules the rows and the track use, the final field
\* never holds two consecutive segments that adjoin and whose Impls are equal
\* element by element in the same order, and every track segment that is
\* kept lies within a final segment with its Impls in its order.
C7_MergedSameOrder ==
    pc = "done" =>
        /\ \A k \in 1 .. (Len(Result) - 1) :
               ~(/\ Adjoins(Result[k].Range, Result[k + 1].Range)
                 /\ EqualInOrder(Result[k], Result[k + 1]))
        /\ \A t \in 1 .. Len(Track.TrackSegments) :
               (\/ Len(Track.TrackSegments[t].Impls) # 0
                \/ (~Rules.IsNull /\ Rules.bAllowEmptySegments)) =>
                   \E k \in 1 .. Len(Result) :
                       /\ Contains(Result[k].Range,
                                   Track.TrackSegments[t].Range)
                       /\ EqualInOrder(Result[k],
                                       Remapped(Track.TrackSegments[t]))

\* Two adjoining track segments with the same two Impls in the same order
\* were merged into one final segment.
C7_Witness ==
    /\ pc = "done"
    /\ \E t \in 1 .. (Len(Track.TrackSegments) - 1) :
           /\ Len(Track.TrackSegments[t].Impls) >= 2
           /\ Adjoins(Track.TrackSegments[t].Range,
                      Track.TrackSegments[t + 1].Range)
           /\ EqualInOrder(Remapped(Track.TrackSegments[t]),
                           Remapped(Track.TrackSegments[t + 1]))
           /\ \E k \in 1 .. Len(Result) :
                  /\ Contains(Result[k].Range, Track.TrackSegments[t].Range)
                  /\ Contains(Result[k].Range,
                              Track.TrackSegments[t + 1].Range)

(***************************************************************************)
(* Properties of both compilers (specification CallerSpec).                *)
(***************************************************************************)
\* C10: Compile on an empty list, or on a list whose ranges are all empty,
\* returns an empty array without any ensure firing, with no rules and with
\* any rules: ProcessSegments returns at once and calls neither BlendSegment
\* nor InsertEmptySpace.  The track-level Compile on zero rows returns an
\* empty field.
C10_EmptyInput ==
    /\ (pc = "compiled" /\ NonEmptySections(Data) = {}) =>
           /\ Segments = <<>>
           /\ Compiler.EnsureFailed = {}
           /\ Calls = <<>>
    /\ (pc = "done" /\ Len(Rows) = 0) =>
           /\ Result = <<>>
           /\ EnsureFailed = {}
           /\ Calls = <<>>

\* Compile was called with rules on a full list whose ranges are all empty.
C10_Witness ==
    /\ pc = "compiled"
    /\ ~Rules.IsNull
    /\ Rules.Insert = "Fill"
    /\ Len(Data) = MaxSections
    /\ NonEmptySections(Data) = {}

(***************************************************************************)
(* Further properties of Compile (specification RulesSpec).                *)
(***************************************************************************)
\* C11: Compile on a single section whose range is unbounded on both sides
\* returns exactly one segment, whose lower and upper bounds are both open
\* and whose Impls hold exactly that section's EvaluationData; this is so
\* with no rules and with every rules policy.
C11_SingleInfinite ==
    (pc = "compiled" /\ Len(Data) = 1 /\ Data[1].Bounds = RangeAll) =>
        /\ Len(Segments) = 1
        /\ IsOpen(Segments[1].Range.Lower)
        /\ IsOpen(Segments[1].Range.Upper)
        /\ Segments[1].Impls = <<Data[1].EvalData>>

\* A single unbounded section was compiled.
C11_Witness ==
    /\ pc = "compiled"
    /\ Len(Data) = 1
    /\ Data[1].Bounds = RangeAll
    /\ Compiler.LowerReadIndex = 1
    /\ Compiler.UpperReadIndex = 1

\* The two sections are [a,b) and [b,c) for some a < b < c, in either order.
Touching(InData, a, b, c) ==
    /\ Len(InData) = 2
    /\ a < b
    /\ b < c
    /\ {InData[1].Bounds, InData[2].Bounds} = {HalfOpen(a, b), HalfOpen(b, c)}

\* C12: adjacency closure.  For any a < b < c, Compile on two sections with
\* ranges [a,b) and [b,c) returns segments that cover [a,c) with no hole at
\* b: no segment has an empty range, every point of [a,c) lies in a
\* segment, and the segment that ends at b adjoins the one that starts at b.
C12_AdjacencyClosure ==
    pc = "compiled" =>
        \A a, b, c \in ScenarioTimes :
            Touching(Data, a, b, c) =>
                /\ \A k \in 1 .. Len(Segments) : ~IsEmpty(Segments[k].Range)
                /\ \A q \in (2 * a) .. (2 * c - 1) :
                       \E k \in 1 .. Len(Segments) :
                           ContainsPoint(Segments[k].Range, q)
                /\ \E k \in 1 .. (Len(Segments) - 1) :
                       /\ Segments[k].Range.Upper = Exclusive(b)
                       /\ Segments[k + 1].Range.Lower = Inclusive(b)
                       /\ Adjoins(Segments[k].Range, Segments[k + 1].Range)

\* Two touching sections were compiled, the later one entered first.
C12_Witness ==
    /\ pc = "compiled"
    /\ \E a, b, c \in ScenarioTimes :
           /\ Touching(Data, a, b, c)
           /\ Data[1].Bounds = HalfOpen(b, c)
    /\ Len(Segments) >= 2

(***************************************************************************)
(* Calls on a used instance (specification ReuseSpec).                     *)
(***************************************************************************)
\* What Compile can return, with the callbacks it makes, on the instance
ResultsOn(Instance, InData, InRules) ==
    {<<o.Returned, o.Calls>> : o \in CompileOutcomes(Instance, InData, InRules)}

\* The instance holds what an earlier call left: bounds and read indices.
Used(Instance) ==
    /\ Len(Instance.LowerBounds) > 0
    /\ Instance.LowerReadIndex > 0
    /\ Instance.UpperReadIndex > 0

\* C13: Compile keeps no state between calls.  In any sequence of Compile
\* calls on one instance, a call can return exactly what the same call on a
\* freshly constructed instance can return, and what a call has returned is
\* a result of the same call on a fresh instance.
C13_NoStateKept ==
    /\ pc \in {"input", "reuse"} =>
           ResultsOn(Compiler, Data, Rules)
               = ResultsOn(FreshCompiler, Data, Rules)
    /\ pc \in {"compiled", "recompiled"} =>
           <<Segments, Calls>> \in ResultsOn(FreshCompiler, Data, Rules)

\* A later call on the instance returned three or more segments for a full
\* list of sections, and left its own bounds and read indices behind.
C13_Witness ==
    /\ pc = "recompiled"
    /\ Used(Compiler)
    /\ Len(Data) = MaxSections
    /\ Len(Segments) >= 3

(***************************************************************************)
(* Ties between equal bounds (specification TieSpec).                      *)
(***************************************************************************)
\* The list with its sections in the order f gives
Permuted(InData, f) == [i \in 1 .. Len(InData) |-> InData[f[i]]]

\* The same sequence of ranges, and the same set of Impls segment by segment
SameField(a, b) ==
    /\ Len(a) = Len(b)
    /\ \A k \in 1 .. Len(a) :
           /\ a[k].Range = b[k].Range
           /\ Elements(a[k].Impls) = Elements(b[k].Impls)

\* C14: the result of Compile with no rules does not depend on how the sort
\* orders equal bounds.  For any permutation of the input list and any
\* outcome of the two sorts, Compile returns the same sequence of segment
\* ranges, and corresponding segments carry the same set of Impls.
C14_TieIndependent ==
    (pc = "compiled" /\ Rules.IsNull) =>
        \A f \in Permutations(1 .. Len(Data)) :
            \A o \in CompileOutcomes(FreshCompiler, Permuted(Data, f),
                                     NullRules) :
                SameField(o.Returned, Segments)

\* Three sections, two with the same lower bound and two with the same upper
\* bound, were compiled, and another outcome of the sorts has the Impls of a
\* segment in another order.
C14_Witness ==
    /\ pc = "compiled"
    /\ Rules.IsNull
    /\ Len(Data) = MaxTied
    /\ \E i, j \in 1 .. Len(Data) :
           /\ i # j
           /\ Data[i].EvalData # Data[j].EvalData
           /\ Data[i].Bounds.Lower = Data[j].Bounds.Lower
    /\ \E i, j \in 1 .. Len(Data) :
           /\ i # j
           /\ Data[i].EvalData # Data[j].EvalData
           /\ Data[i].Bounds.Upper = Data[j].Bounds.Upper
    /\ \E o \in CompileOutcomes(FreshCompiler, Data, NullRules) :
           o.Returned # Segments

(***************************************************************************)
(* The bound flip (specification Spec).                                    *)
(***************************************************************************)
\* Every bound the caller can pass, and every bound held by the data, the
\* instance and the returned segments
BoundsInUse ==
    BoundsOver(Times)
    \cup {r.Lower : r \in BoundsOf(Data) \cup RangesOf(Segments)}
    \cup {r.Upper : r \in BoundsOf(Data) \cup RangesOf(Segments)}
    \cup {Compiler.LowerBounds[i].Bound : i \in 1 .. Len(Compiler.LowerBounds)}
    \cup {Compiler.UpperBounds[i].Bound : i \in 1 .. Len(Compiler.UpperBounds)}

\* C15: FlipInclusion is an involution.  For every bound b (open, inclusive
\* at v, exclusive at v), FlipInclusion(FlipInclusion(b)) equals b; an open
\* bound maps to itself and a closed bound keeps its value while its
\* inclusivity flips.
C15_FlipInvolution ==
    \A b \in BoundsInUse :
        /\ FlipInclusion(FlipInclusion(b)) = b
        /\ IsOpen(b) => FlipInclusion(b) = b
        /\ b.Type = "Inclusive" => FlipInclusion(b) = Exclusive(b.Value)
        /\ b.Type = "Exclusive" => FlipInclusion(b) = Inclusive(b.Value)

\* Compile flipped a closing bound of either kind: a segment ends inclusively
\* where the next starts exclusively, another ends exclusively where the next
\* starts inclusively, and the first segment starts on an open bound.
C15_Witness ==
    /\ pc = "compiled"
    /\ Len(Segments) = 3
    /\ IsOpen(Segments[1].Range.Lower)
    /\ \E j, k \in 1 .. (Len(Segments) - 1) :
           /\ Segments[j].Range.Upper.Type = "Inclusive"
           /\ Segments[j + 1].Range.Lower
                  = FlipInclusion(Segments[j].Range.Upper)
           /\ Segments[k].Range.Upper.Type = "Exclusive"
           /\ Segments[k + 1].Range.Lower
                  = FlipInclusion(Segments[k].Range.Upper)

(***************************************************************************)
(* Properties of FRows (specification TrackSpec).                          *)
(***************************************************************************)
\* The entries of the row that are the main entry of the entity the entry e
\* was built from: same original index, ImplIndex and priority, no flag.
ParentsOf(Row, e) ==
    {m \in Elements(Row.Sections) :
        /\ m.EvalData.Flags = "None"
        /\ m.ActualSectionIndex = e.ActualSectionIndex
        /\ m.EvalData.ImplIndex = e.EvalData.ImplIndex
        /\ m.Priority = e.Priority}

\* C16 as claimed: the pre-roll entry FRows builds for an entity with a
\* non-empty range ends immediately before the main range begins, and the
\* post-roll entry begins immediately after the main range ends: the phantom
\* range and the main range adjoin, whether the main bound is inclusive or
\* exclusive, and the phantom carries the parent's ImplIndex, original entity
\* index and priority.
C16_RollAdjoins ==
    pc \in {"rows", "done"} =>
        \A i \in 1 .. Len(Rows) : \A e \in Elements(Rows[i].Sections) :
            e.EvalData.Flags # "None" =>
                \E m \in ParentsOf(Rows[i], e) :
                    IsEmpty(m.Bounds)
                    \/ /\ e.EvalData.Flags = "PreRoll" =>
                              BoundsAdjoin(e.Bounds.Upper, m.Bounds.Lower)
                       /\ e.EvalData.Flags = "PostRoll" =>
                              BoundsAdjoin(m.Bounds.Upper, e.Bounds.Lower)

\* The positions in Sections (0-based) of the entities FRows does not skip
ActiveEntities ==
    {i \in 0 .. (Len(Sections) - 1) :
        Sections[i + 1].IsValid /\ Sections[i + 1].bIsActive}

\* The row index of the entity the first entry of the row was built from
RowIndexOf(Row) == Sections[Row.Sections[1].ActualSectionIndex + 1].RowIndex

\* C17: FRows builds one row for each distinct row index that has at least
\* one active, non-null entity, in ascending order of row index, and leaves
\* no empty row; inactive and null entities contribute no entry, and every
\* entry records the position of its entity in the input list, the skipped
\* entities counted: every entry of a row points at an active entity of
\* that row index with the entry's priority, and every active entity has
\* exactly one main entry, over its range.
C17_RowsBuilt ==
    pc \in {"rows", "done"} =>
        /\ Len(Rows)
               = Cardinality({Sections[i + 1].RowIndex : i \in ActiveEntities})
        /\ \A k \in 1 .. Len(Rows) : Len(Rows[k].Sections) # 0
        /\ \A k \in 1 .. (Len(Rows) - 1) :
               RowIndexOf(Rows[k]) < RowIndexOf(Rows[k + 1])
        /\ \A k \in 1 .. Len(Rows) : \A e \in Elements(Rows[k].Sections) :
               /\ e.ActualSectionIndex \in ActiveEntities
               /\ Sections[e.ActualSectionIndex + 1].RowIndex
                      = RowIndexOf(Rows[k])
               /\ Sections[e.ActualSectionIndex + 1].OverlapPriority
                      = e.Priority
        /\ \A i \in ActiveEntities :
               \E k \in 1 .. Len(Rows) :
                   /\ RowIndexOf(Rows[k]) = Sections[i + 1].RowIndex
                   /\ Cardinality(
                          {j \in 1 .. Len(Rows[k].Sections) :
                              /\ Rows[k].Sections[j].ActualSectionIndex = i
                              /\ Rows[k].Sections[j].EvalData.Flags = "None"
                              /\ Rows[k].Sections[j].Bounds
                                     = IF Sections[i + 1].bIsInfinite
                                       THEN RangeAll
                                       ELSE Sections[i + 1].Range}) = 1

\* FRows skipped a null and an inactive entity that precede the only active
\* one, which is in row 1: row 0 was created empty and removed.
C17_Witness ==
    /\ pc = "rows"
    /\ Len(Sections) = MaxEntities
    /\ ~Sections[1].IsValid
    /\ ~Sections[2].bIsActive
    /\ Sections[3].RowIndex = 1
    /\ Len(Rows) = 1
    /\ Rows[1].Sections[1].ActualSectionIndex = 2

(***************************************************************************)
(* The indices of the final field (specification TrackSpec).               *)
(***************************************************************************)
\* The entries of all rows
RowEntries == UNION {Elements(Rows[i].Sections) : i \in 1 .. Len(Rows)}

\* C18: in the field returned by the track-level Compile with no rules,
\* every Impl's ImplIndex is the original entity index of a row entry whose
\* range contains the segment, and the Impl's Flags (none, PreRoll,
\* PostRoll) are those of that row entry; every track-level index that is
\* looked up lies within the bounds of the lookup table.
C18_OriginalIndices ==
    (pc = "done" /\ Rules.IsNull) =>
        /\ \A k \in 1 .. Len(Result) : \A impl \in Elements(Result[k].Impls) :
               \E e \in RowEntries :
                   /\ e.ActualSectionIndex = impl.ImplIndex
                   /\ e.EvalData.Flags = impl.Flags
                   /\ Contains(e.Bounds, Result[k].Range)
                   /\ \A q \in TrackPoints :
                          ContainsPoint(Result[k].Range, q) =>
                              ContainsPoint(e.Bounds, q)
        /\ \A t \in 1 .. Len(Track.TrackSegments) :
               \A impl \in Elements(Track.TrackSegments[t].Impls) :
                   /\ impl.ImplIndex >= 0
                   /\ impl.ImplIndex < Len(Track.SourceTrackDataToActualIndex)

\* The field holds an Impl in pre-roll or post-roll whose original index, 2,
\* is neither its index in its row nor its index in the track compile data:
\* the first entity was skipped and the rows are two.
C18_Witness ==
    /\ pc = "done"
    /\ Rules.IsNull
    /\ Len(Rows) = 2
    /\ ~Sections[1].bIsActive
    /\ \E k \in 1 .. Len(Result) : \E j \in 1 .. Len(Result[k].Impls) :
           /\ Result[k].Impls[j].Flags # "None"
           /\ Result[k].Impls[j].ImplIndex = 2
           /\ \E t \in 1 .. Len(Track.TrackSegments) :
                  /\ Len(Track.TrackSegments[t].Impls) >= j
                  /\ Track.TrackSegments[t].Range = Result[k].Range
                  /\ Track.TrackSegments[t].Impls[j].ImplIndex # 2

(***************************************************************************)
(* Gaps filled by the policy (specification GapSpec).                      *)
(***************************************************************************)
\* The records of the BlendSegment calls made on inserted segments
InsertedAt(InCalls) ==
    {k \in 1 .. Len(InCalls) :
        /\ InCalls[k].Op = "BlendSegment"
        /\ (InCalls[k].Previous \/ InCalls[k].Next)}

\* The record of the InsertEmptySpace call that led to the insertion at k
OfferedAt(InCalls, k) ==
    IF InCalls[k - 1].Op = "InsertEmptySpace"
    THEN InCalls[k - 1]
    ELSE InCalls[k - 2]

\* C19: whenever InsertEmptySpace returns a segment, the segment that
\* ProcessSegments inserts has a range contained in the gap that was
\* offered.  A returned range that is not contained in the gap is reported
\* by the ensure and replaced by its intersection with the gap; the call
\* goes on and returns the segments, the inserted one among them.
C19_InsertedWithinGap ==
    pc = "compiled" =>
        \A k \in InsertedAt(Calls) :
            LET gap == OfferedAt(Calls, k).Range
                inserted == Calls[k].Range
            IN /\ OfferedAt(Calls, k).Op = "InsertEmptySpace"
               /\ IsEmpty(inserted) \/ Contains(gap, inserted)
               /\ \A q \in SamplePoints({gap, inserted}) :
                      ContainsPoint(inserted, q) => ContainsPoint(gap, q)
               /\ Calls[k - 1].Op = "ensureMsgf" =>
                      /\ ~Contains(gap, Calls[k - 1].Range)
                      /\ inserted = Intersection(Calls[k - 1].Range, gap)
               /\ \E j \in 1 .. Len(Segments) : Segments[j].Range = inserted

\* A policy returned a range that overflows the gap between two segments:
\* the ensure fired and the inserted range is the gap, not the range returned.
C19_Witness ==
    /\ pc = "compiled"
    /\ Rules.Insert = "Tail"
    /\ \E k \in InsertedAt(Calls) :
           /\ Calls[k - 1].Op = "ensureMsgf"
           /\ Calls[k].Previous
           /\ Calls[k].Next
           /\ ~IsEmpty(Calls[k].Range)
           /\ Calls[k].Range # Calls[k - 1].Range
           /\ Calls[k].Range = Calls[k - 2].Range

(***************************************************************************)
(* Empty segments (specification TrackSpec).                               *)
(***************************************************************************)
NoEmptyImpls(segs) == \A k \in 1 .. Len(segs) : Len(segs[k].Impls) # 0

\* C20 as claimed: after ProcessSegments returns for a rules policy whose
\* AllowEmptySegments() is false, the segment list contains no segment
\* whose Impls list is empty.  (Track.TrackSegments is the list as
\* ProcessSegments left it at the track level.)
C20_NoEmptyAfterProcess ==
    (pc = "done" /\ ~Rules.IsNull /\ ~Rules.bAllowEmptySegments) =>
        NoEmptyImpls(Track.TrackSegments)

\* C20 as amended: the field FMovieSceneTrackCompiler::Compile returns for
\* track rules whose AllowEmptySegments() is false, or for no track rules,
\* contains no segment whose Impls list is empty: the segments that
\* ProcessSegments left without Impls are dropped when the field is built.
C20_NoEmptyInField ==
    (pc = "done" /\ (Rules.IsNull \/ ~Rules.bAllowEmptySegments)) =>
        NoEmptyImpls(Result)

\* ProcessSegments filled a gap at the track level for rules that do not
\* allow empty segments, and the field holds the other segments.
C20_Witness ==
    /\ pc = "done"
    /\ ~Rules.IsNull
    /\ ~Rules.bAllowEmptySegments
    /\ Rules.Insert = "Fill"
    /\ ~NoEmptyImpls(Track.TrackSegments)
    /\ Len(Result) >= 2
    /\ Len(Result) < Len(Track.TrackSegments)

(***************************************************************************)
(* The state of the instance after the sweep (specification Spec).         *)
(***************************************************************************)
\* C21: balance.  For every input list, when the sweep in Compile ends the
\* active set OverlappingSections is empty, with its reference counts, and
\* every upper-bound and lower-bound event has been read, so the check at
\* the end of Compile does not fire; every close event found its
\* EvaluationData in the active set.
C21_Balance ==
    pc = "compiled" =>
        /\ Compiler.OverlappingSections = <<>>
        /\ Compiler.OverlappingRefCounts = <<>>
        /\ Compiler.UpperReadIndex = Len(Compiler.UpperBounds)
        /\ Compiler.LowerReadIndex = Len(Compiler.LowerBounds)
        /\ "OverlappingSections" \notin Compiler.EnsureFailed
        /\ "OverlappingIndex" \notin Compiler.EnsureFailed

\* Two overlapping sections with the same EvaluationData were compiled: the
\* entry was opened twice and closed twice.
C21_Witness ==
    /\ pc = "compiled"
    /\ Len(Data) = 2
    /\ Data[1].EvalData = Data[2].EvalData
    /\ Compiler.UpperReadIndex = 2
    /\ \E q \in Points : /\ ContainsPoint(Data[1].Bounds, q)
                         /\ ContainsPoint(Data[2].Bounds, q)
    /\ Data[1].Bounds.Upper # Data[2].Bounds.Upper

(***************************************************************************)
(* The calls ProcessSegments makes (specification RulesSpec).              *)
(***************************************************************************)
\* The records of the BlendSegment calls on the compiled segments (lines
\* 18-21): their ranges are the ranges the sweep produced, in order.
CompiledCalls(InCalls) ==
    SelectSeq(InCalls,
              LAMBDA r : r.Op = "BlendSegment" /\ ~r.Previous /\ ~r.Next)

\* The records of the InsertEmptySpace calls
OfferedCalls(InCalls) ==
    SelectSeq(InCalls, LAMBDA r : r.Op = "InsertEmptySpace")

\* The range between two consecutive segments
GapBetween(a, b) ==
    MakeRange(FlipInclusion(a.Range.Upper), FlipInclusion(b.Range.Lower))

\* C22 as claimed: during ProcessSegments, InsertEmptySpace is never invoked
\* with both a previous and a next segment: it is invoked only for the gap
\* before the first segment and the gap after the last one.
C22_OnlyBoundaryGaps ==
    pc = "compiled" =>
        \A k \in 1 .. Len(Calls) :
            Calls[k].Op = "InsertEmptySpace" =>
                ~(Calls[k].Previous /\ Calls[k].Next)

\* C22 as amended: consecutive segments produced by the sweep need not
\* adjoin, and ProcessSegments invokes InsertEmptySpace with both a previous
\* and a next segment for every non-empty range between two consecutive
\* compiled segments, and for no range between two that adjoin; every range
\* it offers is non-empty.
C22_InteriorGapsOffered ==
    (pc = "compiled" /\ ~Rules.IsNull) =>
        LET swept == CompiledCalls(Calls)
            offered == Elements(OfferedCalls(Calls))
        IN /\ \A r \in offered : ~IsEmpty(r.Range)
           /\ \A i \in 1 .. (Len(swept) - 1) :
                  LET gap == GapBetween(swept[i], swept[i + 1])
                      here == {r \in offered :
                                  /\ r.Previous
                                  /\ r.Next
                                  /\ r.Range.Lower = gap.Lower}
                  IN IF IsEmpty(gap)
                     THEN here = {}
                     ELSE /\ \E r \in here : r.Range = gap
                          /\ ~Adjoins(swept[i].Range, swept[i + 1].Range)

\* Two sections apart from each other were compiled with rules: the range
\* between the two compiled segments was offered with both neighbours.
C22_Witness ==
    /\ pc = "compiled"
    /\ ~Rules.IsNull
    /\ Len(CompiledCalls(Calls)) = 2
    /\ \E k \in 1 .. Len(Calls) :
           /\ Calls[k].Op = "InsertEmptySpace"
           /\ Calls[k].Previous
           /\ Calls[k].Next
           /\ Calls[k].Range = HalfOpen(5, 10)

\* The maximal gaps of the compiled list: the range before the first
\* segment, the ranges between consecutive segments and the range after the
\* last one, where not empty.
MaximalGaps(swept) ==
    {g \in {MakeRange(OpenBound, FlipInclusion(swept[1].Range.Lower)),
            MakeRange(FlipInclusion(swept[Len(swept)].Range.Upper),
                      OpenBound)}
           \cup {GapBetween(swept[i], swept[i + 1]) :
                   i \in 1 .. (Len(swept) - 1)} :
        ~IsEmpty(g) /\ g # RangeAll}

\* The InsertEmptySpace calls whose range lies in the gap
OfferedIn(InCalls, gap) ==
    {k \in 1 .. Len(InCalls) :
        /\ InCalls[k].Op = "InsertEmptySpace"
        /\ Contains(gap, InCalls[k].Range)}

\* C23: during one ProcessSegments call, InsertEmptySpace is invoked exactly
\* once for each maximal gap of the compiled list and never a second time
\* for a part of a gap it was already offered, whatever part of the gap the
\* returned segment covers, for the leading gap as for the others.
C23_OncePerGap ==
    (pc = "compiled" /\ ~Rules.IsNull /\ Len(CompiledCalls(Calls)) > 0) =>
        \A gap \in MaximalGaps(CompiledCalls(Calls)) :
            Cardinality(OfferedIn(Calls, gap)) = 1

\* The InsertEmptySpace calls made with no previous segment
LeadingOffers(InCalls) ==
    {k \in 1 .. Len(InCalls) :
        /\ InCalls[k].Op = "InsertEmptySpace"
        /\ ~InCalls[k].Previous}

\* The InsertEmptySpace calls made with no next segment
TrailingOffers(InCalls) ==
    {k \in 1 .. Len(InCalls) :
        /\ InCalls[k].Op = "InsertEmptySpace"
        /\ ~InCalls[k].Next}

\* C24: ProcessSegments on a non-empty list offers the leading gap
\* (unbounded below, ending at FlipInclusion of the first segment's lower
\* bound, no previous segment) to InsertEmptySpace if and only if the first
\* segment's lower bound is not open, and the trailing gap (from
\* FlipInclusion of the last segment's upper bound on, unbounded above, no
\* next segment) if and only if the last segment's upper bound is not open.
C24_BoundaryGaps ==
    (pc = "compiled" /\ ~Rules.IsNull /\ Len(CompiledCalls(Calls)) > 0) =>
        LET swept == CompiledCalls(Calls)
            first == swept[1].Range
            last == swept[Len(swept)].Range
        IN /\ (first.Lower.Type # "Open") <=> (LeadingOffers(Calls) # {})
           /\ (last.Upper.Type # "Open") <=> (TrailingOffers(Calls) # {})
           /\ Cardinality(LeadingOffers(Calls)) <= 1
           /\ Cardinality(TrailingOffers(Calls)) <= 1
           /\ \A k \in LeadingOffers(Calls) :
                  /\ Calls[k].Next
                  /\ Calls[k].Range.Lower = OpenBound
                  /\ Calls[k].Range.Upper.Type # first.Lower.Type
                  /\ Calls[k].Range.Upper.Type # "Open"
                  /\ Calls[k].Range.Upper.Value = first.Lower.Value
           /\ \A k \in TrailingOffers(Calls) :
                  /\ Calls[k].Previous
                  /\ Calls[k].Range.Upper = OpenBound
                  /\ Calls[k].Range.Lower.Type # last.Upper.Type
                  /\ Calls[k].Range.Lower.Type # "Open"
                  /\ Calls[k].Range.Lower.Value = last.Upper.Value

\* One section [0,5) was compiled with rules: the range before 0 and the
\* range from 5 on were offered.
C24_Witness ==
    /\ pc = "compiled"
    /\ ~Rules.IsNull
    /\ Len(CompiledCalls(Calls)) = 1
    /\ \E k \in LeadingOffers(Calls) :
           Calls[k].Range = MakeRange(OpenBound, Exclusive(0))
    /\ \E k \in TrailingOffers(Calls) :
           Calls[k].Range = MakeRange(Inclusive(5), OpenBound)

\* The records of all BlendSegment calls
BlendCalls(InCalls) ==
    SelectSeq(InCalls, LAMBDA r : r.Op = "BlendSegment")

\* How many elements of the sequence have the range
CountRange(s, range) ==
    Cardinality({i \in 1 .. Len(s) : s[i].Range = range})

\* C25: in one ProcessSegments call BlendSegment is invoked exactly once on
\* every segment of the final list: once on each compiled segment, all of
\* these before the first InsertEmptySpace call, and once on each inserted
\* segment, over its clamped range, right after InsertEmptySpace returned
\* it; so whenever InsertEmptySpace is called every segment of the list has
\* been blended.
C25_BlendedOnce ==
    (pc = "compiled" /\ ~Rules.IsNull /\ Rules.PostProcess = "None") =>
        LET n == Len(CompiledCalls(Calls))
            blends == BlendCalls(Calls)
        IN /\ \A k \in 1 .. n :
                  /\ Calls[k].Op = "BlendSegment"
                  /\ ~Calls[k].Previous
                  /\ ~Calls[k].Next
           /\ \A k \in (n + 1) .. Len(Calls) :
                  Calls[k].Op = "BlendSegment" =>
                      \E j \in {k - 1, k - 2} :
                          /\ j > n
                          /\ Calls[j].Op = "InsertEmptySpace"
                          /\ \A i \in (j + 1) .. (k - 1) :
                                 Calls[i].Op = "ensureMsgf"
                          /\ Contains(Calls[j].Range, Calls[k].Range)
                          /\ Calls[j].Previous = Calls[k].Previous
                          /\ Calls[j].Next = Calls[k].Next
           /\ Len(blends) = Len(Segments)
           /\ \A i \in 1 .. Len(Segments) :
                  CountRange(blends, Segments[i].Range)
                      = CountRange(Segments, Segments[i].Range)

\* Two compiled segments were blended, then a segment returned for a gap
\* was clamped, blended and inserted.
C25_Witness ==
    /\ pc = "compiled"
    /\ Len(CompiledCalls(Calls)) = 2
    /\ Len(Segments) > 2
    /\ \E k \in 3 .. (Len(Calls) - 1) :
           /\ Calls[k].Op = "ensureMsgf"
           /\ Calls[k + 1].Op = "BlendSegment"
           /\ Calls[k + 1].Range # Calls[k].Range
           /\ ~IsEmpty(Calls[k + 1].Range)
           /\ \E i \in 1 .. Len(Segments) :
                  /\ Segments[i].Range = Calls[k + 1].Range
                  /\ Segments[i].Impls = <<>>

(***************************************************************************)
(* The priorities of the rows (specification RowsSpec).                    *)
(***************************************************************************)
\* The 0-based positions of the rows that hold an entry made from the
\* section at the index
RowPositionsOf(ActualIndex) ==
    {i \in 0 .. (Len(Rows) - 1) :
        \E e \in Elements(Rows[i + 1].Sections) :
            e.ActualSectionIndex = ActualIndex}

\* C26: in FMovieSceneTrackCompiler::Compile over n rows, every track-level
\* section made from the row at position i (0-based) has priority n - i,
\* also when some rows have no sections: the priority is at least 1, the
\* same for all entries of a row, and higher for an earlier row than for a
\* later one.
C26_RowPriority ==
    pc = "done" =>
        LET Made == Track.TrackCompileData
            LookUp == Track.SourceTrackDataToActualIndex
        IN /\ Len(LookUp) = Len(Made)
           /\ \A k \in 1 .. Len(Made) :
                  /\ RowPositionsOf(LookUp[k]) # {}
                  /\ \A i \in RowPositionsOf(LookUp[k]) :
                         Made[k].Priority = Len(Rows) - i
                  /\ Made[k].Priority >= 1
           /\ \A k, m \in 1 .. Len(Made) :
                  \A i \in RowPositionsOf(LookUp[k]) :
                      \A j \in RowPositionsOf(LookUp[m]) :
                          /\ (i = j) => Made[k].Priority = Made[m].Priority
                          /\ (i < j) => Made[k].Priority > Made[m].Priority

\* Three rows were compiled, the middle one without sections: the entries of
\* the first row have priority 3, those of the last row priority 1.
C26_Witness ==
    /\ pc = "done"
    /\ Len(Rows) = 3
    /\ Rows[2].Sections = <<>>
    /\ \E k, m \in 1 .. Len(Track.TrackCompileData) :
           /\ 0 \in RowPositionsOf(Track.SourceTrackDataToActualIndex[k])
           /\ Track.TrackCompileData[k].Priority = 3
           /\ 2 \in RowPositionsOf(Track.SourceTrackDataToActualIndex[m])
           /\ Track.TrackCompileData[m].Priority = 1

(***************************************************************************)
(* Repeated references and empty segments (specification Spec).            *)
(***************************************************************************)
\* How often the Impls list holds the EvaluationData
Occurrences(Impls, EvalData) ==
    Cardinality({i \in 1 .. Len(Impls) : Impls[i] = EvalData})

\* C27: no segment returned by Compile with no rules lists the same
\* EvaluationData twice, also when several overlapping sections carry it;
\* and the EvaluationData stays listed until all of these sections have
\* ended: every segment that shares a point with a section lists the
\* section's EvaluationData exactly once.
C27_ListedOnce ==
    (pc = "compiled" /\ Rules.IsNull) =>
        LET points == Points IN
        \A k \in 1 .. Len(Segments) :
            /\ \A e \in Elements(Segments[k].Impls) :
                   Occurrences(Segments[k].Impls, e) = 1
            /\ \A i \in NonEmptySections(Data) :
                   (\E q \in points :
                        /\ ContainsPoint(Segments[k].Range, q)
                        /\ ContainsPoint(Data[i].Bounds, q))
                       => Occurrences(Segments[k].Impls, Data[i].EvalData) = 1

\* Two sections with the same EvaluationData overlap and the first to start
\* is the first to end: the segment after its end still lists the
\* EvaluationData, once.
C27_Witness ==
    /\ pc = "compiled"
    /\ Rules.IsNull
    /\ Len(Data) = 2
    /\ Data[1].EvalData = Data[2].EvalData
    /\ \E k \in 2 .. Len(Segments) :
           /\ Segments[k].Impls = <<Data[1].EvalData>>
           /\ Segments[k - 1].Impls = <<Data[1].EvalData>>
           /\ Adjoins(Segments[k - 1].Range, Segments[k].Range)
           /\ \E i, j \in 1 .. 2 :
                  /\ i # j
                  /\ Contains(Data[i].Bounds, Segments[k - 1].Range)
                  /\ Contains(Data[j].Bounds, Segments[k - 1].Range)
                  /\ Contains(Data[j].Bounds, Segments[k].Range)
                  /\ ~Contains(Data[i].Bounds, Segments[k].Range)

\* C28: every segment returned by Compile with no rules has a non-empty
\* range and a non-empty Impls list, for every input list: the sweep leaves
\* neither a zero-width segment nor a segment with no active section.
C28_NoEmptySegment ==
    (pc = "compiled" /\ Rules.IsNull) =>
        \A k \in 1 .. Len(Segments) :
            /\ ~IsEmpty(Segments[k].Range)
            /\ \E q \in Points : ContainsPoint(Segments[k].Range, q)
            /\ Len(Segments[k].Impls) > 0

\* One section ends at 1 while another goes on and a third starts right
\* after 1: the segment opened at the close for the section that goes on
\* would be empty, and the result has no segment between [0,1] and (1,2].
C28_Witness ==
    /\ pc = "compiled"
    /\ Rules.IsNull
    /\ Len(Data) = 3
    /\ \E i, j, k \in 1 .. 3 :
           /\ Data[i].Bounds = MakeRange(Inclusive(0), Inclusive(1))
           /\ Data[j].Bounds = MakeRange(Exclusive(1), Inclusive(2))
           /\ Data[k].Bounds = MakeRange(Inclusive(0), Inclusive(2))
           /\ Data[i].EvalData # Data[k].EvalData
           /\ Data[j].EvalData # Data[k].EvalData
    /\ Len(Segments) = 2
    /\ Segments[1].Range = MakeRange(Inclusive(0), Inclusive(1))
    /\ Segments[2].Range = MakeRange(Exclusive(1), Inclusive(2))

(***************************************************************************)
(* The list ProcessSegments leaves (specification GapSpec).                *)
(***************************************************************************)
\* C29: for any InsertEmptySpace policy, also one that returns a range
\* larger than the offered gap or disjoint from it, and a BlendSegment that
\* leaves ranges unchanged, the list after ProcessSegments is strictly
\* increasing in lower bound, pairwise non-overlapping and free of segments
\* with an empty range.
C29_WellFormedAfterProcess ==
    (pc = "compiled" /\ ~Rules.IsNull) =>
        /\ IncreasingLower(Segments)
        /\ NoOverlap(Segments, Points)
        /\ \A k \in 1 .. Len(Segments) : ~IsEmpty(Segments[k].Range)

(***************************************************************************)
(* Dropped segments (specification TrackSpec).                             *)
(***************************************************************************)
\* The track segments the last loop of Compile drops: those without Impls,
\* unless the track rules allow them.
DroppedSegments ==
    {t \in 1 .. Len(Track.TrackSegments) :
        /\ Len(Track.TrackSegments[t].Impls) = 0
        /\ (Rules.IsNull \/ ~Rules.bAllowEmptySegments)}

\* C30: the field FMovieSceneTrackCompiler::Compile returns holds a segment
\* with an empty Impls list only if track rules were supplied and their
\* AllowEmptySegments() is true; otherwise every returned segment has at
\* least one Impl, and a dropped segment leaves a hole: no returned segment
\* covers a point of its range, so its two neighbours were not merged.
C30_DroppedLeavesHole ==
    pc = "done" =>
        /\ (\E k \in 1 .. Len(Result) : Len(Result[k].Impls) = 0)
               => (~Rules.IsNull /\ Rules.bAllowEmptySegments)
        /\ \A t \in DroppedSegments :
               \A q \in SamplePoints(RangesOf(Track.TrackSegments)
                                     \cup RangesOf(Result)) :
                   ContainsPoint(Track.TrackSegments[t].Range, q) =>
                       \A k \in 1 .. Len(Result) :
                           ~ContainsPoint(Result[k].Range, q)

\* A track segment between two segments with the same Impls was dropped:
\* the field holds the two neighbours as separate segments.
C30_Witness ==
    /\ pc = "done"
    /\ ~Rules.IsNull
    /\ ~Rules.bAllowEmptySegments
    /\ \E t \in DroppedSegments :
           /\ ~IsEmpty(Track.TrackSegments[t].Range)
           /\ \E k \in 1 .. (Len(Result) - 1) :
                  /\ EqualInOrder(Result[k], Result[k + 1])
                  /\ Len(Result[k].Impls) > 0
                  /\ Result[k].Range.Upper
                         = FlipInclusion(Track.TrackSegments[t].Range.Lower)
                  /\ Result[k + 1].Range.Lower
                         = FlipInclusion(Track.TrackSegments[t].Range.Upper)

====
